---- MODULE Spec2Model ----
(***************************************************************************)
(* Model of the Intelliclima cloud client                                  *)
(* (custom_components/intelliclima/api.py).                                *)
(*                                                                         *)
(* One IntelliclimaApiClient instance is shared by a fixed set of asyncio  *)
(* tasks.  A task runs one public coroutine at a time.  asyncio switches   *)
(* tasks only at an await, and the only awaits that suspend are the        *)
(* network calls of _request, so one step of the model is: a task starts   *)
(* an operation, or the answer to its pending request arrives, and the     *)
(* task runs without interruption up to its next request or to its end.    *)
(***************************************************************************)
EXTENDS Integers, Sequences, FiniteSets, TLC

\* Python None / an absent JSON field.
None == "None"

\* The asyncio tasks that share the client.
Tasks == {"t1", "t2"}

\* Number of public operations invoked on the client in one run.
MaxCalls == 3

VARIABLES
    auth_token,      \* self._auth_token
    user_id,         \* self._user_id
    house_id,        \* self._house_id
    c800_ids,        \* self._c800_ids
    eco_ids,         \* self._eco_ids
    task,            \* per task: the coroutine it runs and its local state
    calls,           \* public operations invoked so far
    last_gd_noauth,  \* history: the last operation to end was a get_devices
                     \* that failed on a "NO_AUTH" status
    pure             \* a helper or a host-side consumer evaluated on its own:
                     \* its name, its input and, once applied, its output

vars == <<auth_token, user_id, house_id, c800_ids, eco_ids, task, calls,
          last_gd_noauth, pure>>

sessionVars == <<auth_token, user_id, house_id, c800_ids, eco_ids>>

(***************************************************************************)
(* Strings                                                                 *)
(***************************************************************************)
Char(s, i) == SubSeq(s, i, i)

DecDigits == "0123456789"

HexDigits == "0123456789ABCDEF"

\* str.isdigit for one character (ASCII digits).
IsDigitChar(ch) == \E i \in 1..10 : Char(DecDigits, i) = ch

\* str.isdigit: non-empty and every character is a digit.
IsDigit(s) == Len(s) > 0 /\ \A i \in 1..Len(s) : IsDigitChar(Char(s, i))

\* str.lstrip("-")
RECURSIVE LStripMinus(_)
LStripMinus(s) ==
    IF Len(s) > 0 /\ Char(s, 1) = "-" THEN LStripMinus(Tail(s)) ELSE s

DigitVal(ch) == CHOOSE i \in 0..9 : Char(DecDigits, i + 1) = ch

RECURSIVE DecValue(_)
DecValue(s) ==
    IF Len(s) = 0 THEN 0
    ELSE 10 * DecValue(SubSeq(s, 1, Len(s) - 1)) + DigitVal(Char(s, Len(s)))

\* int(s) accepts an optional single sign followed by digits.
IntParses(s) ==
    \/ IsDigit(s)
    \/ Len(s) > 1 /\ Char(s, 1) \in {"-", "+"} /\ IsDigit(Tail(s))

IntValue(s) ==
    IF IsDigit(s) THEN DecValue(s)
    ELSE IF Char(s, 1) = "-" THEN 0 - DecValue(Tail(s))
    ELSE DecValue(Tail(s))

\* str(n) for an integer n.
RECURSIVE NatToStr(_)
NatToStr(n) ==
    IF n < 10 THEN Char(DecDigits, n + 1)
    ELSE NatToStr(n \div 10) \o Char(DecDigits, (n % 10) + 1)

IntToStr(n) == IF n < 0 THEN "-" \o NatToStr(0 - n) ELSE NatToStr(n)

\* ",".join(seq)
RECURSIVE JoinComma(_)
JoinComma(seq) ==
    IF Len(seq) = 0 THEN ""
    ELSE IF Len(seq) = 1 THEN seq[1]
    ELSE seq[1] \o "," \o JoinComma(Tail(seq))

(***************************************************************************)
(* JSON values that reach the client as ids: null, a string or a number.   *)
(***************************************************************************)
JNull == [t |-> "null", s |-> "", n |-> 0]

JStr(x) == [t |-> "str", s |-> x, n |-> 0]

JInt(x) == [t |-> "int", s |-> "", n |-> x]

\* str(item)
PyStr(item) ==
    IF item.t = "str" THEN item.s
    ELSE IF item.t = "int" THEN IntToStr(item.n)
    ELSE "None"

\* item in (None, "")
NullOrEmpty(item) == item.t = "null" \/ (item.t = "str" /\ item.s = "")

\* "not x" for a session field or a response field: None or the empty string.
Falsy(v) == v = None \/ v = ""

LowerLetters == "abcdefghijklmnopqrstuvwxyz"

UpperLetters == "ABCDEFGHIJKLMNOPQRSTUVWXYZ"

UpperChar(ch) ==
    IF \E i \in 1..26 : Char(LowerLetters, i) = ch
    THEN Char(UpperLetters, CHOOSE i \in 1..26 : Char(LowerLetters, i) = ch)
    ELSE ch

LowerChar(ch) ==
    IF \E i \in 1..26 : Char(UpperLetters, i) = ch
    THEN Char(LowerLetters, CHOOSE i \in 1..26 : Char(UpperLetters, i) = ch)
    ELSE ch

\* str.upper
RECURSIVE Upper(_)
Upper(s) == IF Len(s) = 0 THEN "" ELSE UpperChar(Char(s, 1)) \o Upper(Tail(s))

\* str.lower
RECURSIVE Lower(_)
Lower(s) == IF Len(s) = 0 THEN "" ELSE LowerChar(Char(s, 1)) \o Lower(Tail(s))

\* str.endswith
EndsWith(s, suffix) ==
    /\ Len(suffix) <= Len(s)
    /\ SubSeq(s, Len(s) - Len(suffix) + 1, Len(s)) = suffix

(***************************************************************************)
(* ECO frame codec                                                         *)
(***************************************************************************)
RECURSIVE BitXor(_, _)
BitXor(a, b) ==
    IF a = 0 THEN b
    ELSE IF b = 0 THEN a
    ELSE 2 * BitXor(a \div 2, b \div 2) + ((a + b) % 2)

HexChar(n) == Char(HexDigits, n + 1)

\* f"{n:02X}" for a byte
Hex2(n) == HexChar(n \div 16) \o HexChar(n % 16)

HexVal(ch) == CHOOSE i \in 0..15 : HexChar(i) = ch

\* bytes.fromhex
FromHex(h) ==
    [i \in 1..(Len(h) \div 2) |->
        16 * HexVal(Char(h, 2 * i - 1)) + HexVal(Char(h, 2 * i))]

\* One shift step of the inner loop.
ShiftOnce(crc) ==
    IF crc >= 128 THEN BitXor((crc * 2) % 256, 49) ELSE (crc * 2) % 256

\* The inner loop, "for _ in range(8)", for every value the byte can have
\* after the XOR.
CrcShift ==
    [b \in 0..255 |->
        ShiftOnce(ShiftOnce(ShiftOnce(ShiftOnce(
            ShiftOnce(ShiftOnce(ShiftOnce(ShiftOnce(b))))))))]

\* The outer loop, "for byte in payload".
RECURSIVE CrcBytes(_, _)
CrcBytes(crc, payload) ==
    IF Len(payload) = 0 THEN crc
    ELSE CrcBytes(CrcShift[BitXor(crc, Head(payload))], Tail(payload))

\* A checksum without the final XOR.
crc8_eco_without_xorout(payload) == CrcBytes(0, payload)

crc8_eco(payload) == BitXor(CrcBytes(0, payload), 197)

\* "".join(ch for ch in str(serial) if ch.isdigit())
RECURSIVE DigitsOf(_)
DigitsOf(s) ==
    IF Len(s) = 0 THEN ""
    ELSE (IF IsDigitChar(Char(s, 1)) THEN Char(s, 1) ELSE "") \o DigitsOf(Tail(s))

\* str.zfill(8) of a digit string
RECURSIVE ZFill8(_)
ZFill8(s) == IF Len(s) >= 8 THEN s ELSE ZFill8("0" \o s)

\* ok = FALSE stands for the IntelliclimaApiClientError the function raises.
normalize_eco_serial(serial) ==
    LET serial_digits == DigitsOf(serial) IN
    IF Len(serial_digits) = 0 \/ Len(serial_digits) > 8
    THEN [ok |-> FALSE, serial |-> ""]
    ELSE [ok |-> TRUE, serial |-> ZFill8(serial_digits)]

\* A frame builder that takes the first four digits of the padded serial.
eco_trama_first_digits(serial, mode, speed) ==
    IF mode < 0 \/ mode > 255 THEN [ok |-> FALSE, trama |-> ""]
    ELSE IF speed < 0 \/ speed > 255 THEN [ok |-> FALSE, trama |-> ""]
    ELSE LET normalized_serial == normalize_eco_serial(serial) IN
         IF ~normalized_serial.ok THEN [ok |-> FALSE, trama |-> ""]
         ELSE LET serial_hex == SubSeq(normalized_serial.serial, 1, 4)
                  frame_without_checksum ==
                      "0A0000" \o serial_hex \o "000E2F00500000"
                      \o Hex2(mode) \o Hex2(speed)
                  checksum == crc8_eco(FromHex(frame_without_checksum))
              IN [ok |-> TRUE,
                  trama |-> frame_without_checksum \o Hex2(checksum) \o "0D"]

eco_trama(serial, mode, speed) ==
    IF mode < 0 \/ mode > 255 THEN [ok |-> FALSE, trama |-> ""]
    ELSE IF speed < 0 \/ speed > 255 THEN [ok |-> FALSE, trama |-> ""]
    ELSE LET normalized_serial == normalize_eco_serial(serial) IN
         IF ~normalized_serial.ok THEN [ok |-> FALSE, trama |-> ""]
         ELSE LET serial_hex == SubSeq(normalized_serial.serial, 5, 8)
                  frame_without_checksum ==
                      "0A0000" \o serial_hex \o "000E2F00500000"
                      \o Hex2(mode) \o Hex2(speed)
                  checksum == crc8_eco(FromHex(frame_without_checksum))
              IN [ok |-> TRUE,
                  trama |-> frame_without_checksum \o Hex2(checksum) \o "0D"]

\* An acknowledgement check that accepts the echoed frame alone.
is_expected_eco_trama_exact(response_trama, expected_trama) ==
    response_trama = "" \/ response_trama = expected_trama

is_expected_eco_trama(response_trama, expected_trama) ==
    IF response_trama = "" THEN TRUE
    ELSE response_trama = expected_trama
         \/ EndsWith(response_trama, expected_trama)

\* A mode mapping with the codes of heat and auto exchanged.
mode_to_int_swapped(hvac_mode) ==
    LET normalized == Lower(hvac_mode) IN
    IF normalized = "heat" THEN 2 ELSE IF normalized = "auto" THEN 1 ELSE 0

mode_to_int(hvac_mode) ==
    LET normalized == Lower(hvac_mode) IN
    IF normalized = "off" THEN 0
    ELSE IF normalized = "heat" THEN 1
    ELSE IF normalized = "auto" THEN 2
    ELSE 0

(***************************************************************************)
(* Session and task state                                                  *)
(***************************************************************************)
\* The session fields of the client, as one record.
Session ==
    [auth_token |-> auth_token, user_id |-> user_id, house_id |-> house_id,
     c800_ids |-> c800_ids, eco_ids |-> eco_ids]

\* The session of a new client, and of a client after a reset.
EmptySession ==
    [auth_token |-> None, user_id |-> None, house_id |-> None,
     c800_ids |-> <<>>, eco_ids |-> <<>>]

NoHeaders == [Tokenid |-> None, Token |-> None]

auth_headers(s) ==
    IF Falsy(s.auth_token) \/ Falsy(s.user_id) THEN NoHeaders
    ELSE [Tokenid |-> s.user_id, Token |-> s.auth_token]

\* A request handed to _request: the endpoint (kind), the user id in the
\* URL, the headers the caller built, and the body fields.
Req(kind, user, hdrs, ids, asked, mode, trama) ==
    [kind |-> kind, user |-> user, hdrs |-> hdrs, ids |-> ids,
     asked |-> asked, mode |-> mode, trama |-> trama]

NoReq == Req("none", None, NoHeaders, "", <<>>, 0, "")

\* user/login/<username>/<sha256>: no token headers, ensure_auth = False.
LoginReq == Req("login", None, NoHeaders, "", <<>>, 0, "")

NoArgs ==
    [serial |-> "", target_temperature |-> 0, hvac_mode |-> "", model |-> None,
     mode |-> 0, speed |-> 0]

NoPayload == [status |-> None]

Pending == [cls |-> "pending", p |-> NoPayload]

NoDiscovery == [done |-> FALSE, c800_ids |-> <<>>, eco_ids |-> <<>>]

\* No helper is being evaluated on its own.
NoEvaluation == [fn |-> "none", done |-> FALSE]

\* A task that runs no coroutine.
IdleTask ==
    [op |-> "idle", pc |-> "idle", args |-> NoArgs, req |-> NoReq,
     cont |-> "none", deferred |-> NoReq, c800_left |-> <<>>,
     devices |-> <<>>, states |-> <<>>, discovered |-> NoDiscovery,
     log |-> <<>>,
     result |-> "none", no_token_at_start |-> FALSE, after_noauth |-> FALSE]

(***************************************************************************)
(* The vendor service and the transport: what a request can be answered    *)
(* with.                                                                   *)
(***************************************************************************)
\* Outcomes of session.request / response.text / raise_for_status / json
\* that do not deliver a JSON object.
FailureClasses ==
    {"timeout", "client_error", "gaierror", "typeerror_getaddrinfo",
     "typeerror_other", "http401", "http403", "http500", "bad_json",
     "not_a_dict"}

LoginPayloads ==
    {[status |-> "OK", token |-> JStr("tokA"), id |-> JInt(7)],
     [status |-> "OK", token |-> JStr(""), id |-> JInt(7)],
     [status |-> "OK", token |-> JStr("tokA"), id |-> JNull],
     [status |-> "KO", token |-> JStr("tokA"), id |-> JInt(7)],
     [status |-> "NO_AUTH", token |-> JNull, id |-> JNull]}

JDict(keys) == [isdict |-> TRUE, keys |-> keys]

JList(items) == [islist |-> TRUE, items |-> items]

NotAList == [islist |-> FALSE, items |-> <<>>]

HousePayloads ==
    {[status |-> "OK", houses |-> JDict(<<"h1">>),
      cronoIDs |-> JList(<<JInt(12), JStr("abc"), JStr("5")>>),
      ecoIDs |-> JList(<<JStr("7")>>)],
     [status |-> "OK", houses |-> JDict(<<"h2", "h3">>),
      cronoIDs |-> JList(<<JStr(""), JStr("3"), JNull>>),
      ecoIDs |-> NotAList],
     [status |-> "OK", houses |-> JDict(<<>>),
      cronoIDs |-> JList(<<JInt(12)>>), ecoIDs |-> JList(<<>>)],
     [status |-> "OK", houses |-> JDict(<<"h4">>),
      cronoIDs |-> JList(<<JStr("0"), JStr("-3"), JStr("--5")>>),
      ecoIDs |-> JList(<<JStr("abc")>>)],
     [status |-> "NO_AUTH", houses |-> JDict(<<>>),
      cronoIDs |-> JList(<<>>), ecoIDs |-> JList(<<>>)]}

\* One entry of a "data" list: a JSON object with an id, or something else.
DeviceEntry(id) == [isdict |-> TRUE, id |-> JStr(id)]

JunkEntry == [isdict |-> FALSE, id |-> JNull]

\* The service answers a device query with one record per id it was asked
\* for (after an entry that is no JSON object), or with "NO_AUTH".
DevicePayloads(asked) ==
    {[status |-> "OK",
      data |-> JList(<<JunkEntry>> \o [i \in 1..Len(asked) |-> DeviceEntry(asked[i])])],
     [status |-> "NO_AUTH", data |-> NotAList]}

SetC800Payloads == {[status |-> "OK"], [status |-> "NO_AUTH"]}

SetEcoPayloads(serial, trama) ==
    {[status |-> "OK", serial |-> None, trama |-> None],
     [status |-> "OK", serial |-> serial, trama |-> "SERVERECO" \o trama],
     [status |-> "OK", serial |-> "", trama |-> Lower(trama)],
     [status |-> "OK", serial |-> "99999999", trama |-> trama],
     [status |-> "OK", serial |-> serial,
      trama |-> SubSeq(trama, 1, Len(trama) - 1) \o "E"],
     [status |-> "NO_AUTH", serial |-> None, trama |-> None]}

(***************************************************************************)
(* The client's coroutines.  Each operator takes the context                *)
(* c = [s |-> session, k |-> the running task's record] and runs the code  *)
(* up to the next network await (pc = "await") or to the end of the public *)
(* operation (pc = "done").                                                *)
(***************************************************************************)
\* An exception of class cls leaves the public operation.
Raise(c, cls) ==
    [c EXCEPT !.k.pc = "done", !.k.result = cls, !.k.req = NoReq]

\* The public operation returns.
Return(c) ==
    [c EXCEPT !.k.pc = "done", !.k.result = "ok", !.k.req = NoReq]

\* _request from its curl logging on: the request goes out and the task
\* waits for the answer.
Send(c, r) ==
    [c EXCEPT !.k.pc = "await", !.k.req = r,
              !.k.log = Append(@, [kind |-> r.kind, hdrs |-> r.hdrs,
                                   out |-> Pending])]

\* _request without its lazy login.
request_without_login(c, r, ensure_auth) == Send(c, r)

RECURSIVE request(_, _, _)
RECURSIVE async_authenticate(_, _)

\* _request up to its await: lazy login, then the request itself.  The
\* headers in r were built by the caller before the call.
request(c, r, ensure_auth) ==
    IF ensure_auth /\ Falsy(c.s.auth_token)
    THEN async_authenticate([c EXCEPT !.k.deferred = r], "request")
    ELSE Send(c, r)

\* async_authenticate up to its await; cont names the caller to resume.
async_authenticate(c, cont) ==
    request([c EXCEPT !.k.cont = cont], LoginReq, FALSE)

\* JSON values a parsed text can give besides null, strings and numbers: a
\* boolean, and an object with no member or with one member whose value is a
\* string (held as "key=value").
JBool(b) == [t |-> "bool", s |-> "", n |-> IF b THEN 1 ELSE 0]

JObject(members) == [t |-> "dict", s |-> members, n |-> 0]

\* The result of a parse: the value, or the JSONDecodeError.
Parsed(v) == [ok |-> TRUE, v |-> v]

DecodeError == [ok |-> FALSE, v |-> JNull]

Quote == "\""

\* JSON whitespace around a text (blanks).
RECURSIVE JsonStrip(_)
JsonStrip(s) ==
    IF Len(s) > 0 /\ Char(s, 1) = " " THEN JsonStrip(Tail(s))
    ELSE IF Len(s) > 0 /\ Char(s, Len(s)) = " "
    THEN JsonStrip(SubSeq(s, 1, Len(s) - 1))
    ELSE s

\* A JSON string literal without escapes: quotes around characters that are
\* neither a quote nor a backslash.
IsJsonString(x) ==
    /\ Len(x) >= 2
    /\ Char(x, 1) = Quote
    /\ Char(x, Len(x)) = Quote
    /\ \A i \in 2..(Len(x) - 1) : Char(x, i) \notin {Quote, "\\"}

Unquoted(x) == SubSeq(x, 2, Len(x) - 1)

\* A JSON integer literal: an optional minus sign, then 0 or digits that do
\* not begin with 0.
IsJsonInt(x) ==
    LET digits == IF Len(x) > 0 /\ Char(x, 1) = "-" THEN Tail(x) ELSE x
    IN IsDigit(digits) /\ (Len(digits) = 1 \/ Char(digits, 1) # "0")

\* Position of the first ":" of x, 0 when there is none.
ColonAt(x) ==
    IF \E i \in 1..Len(x) : Char(x, i) = ":"
    THEN CHOOSE i \in 1..Len(x) :
             Char(x, i) = ":" /\ \A j \in 1..(i - 1) : Char(x, j) # ":"
    ELSE 0

\* json.loads for the texts the inputs use: null, true, false, integers,
\* strings without escapes, {} and objects with one string member; anything
\* else raises JSONDecodeError.
json_loads(text) ==
    LET x == JsonStrip(text) IN
    IF x = "null" THEN Parsed(JNull)
    ELSE IF x = "true" THEN Parsed(JBool(TRUE))
    ELSE IF x = "false" THEN Parsed(JBool(FALSE))
    ELSE IF IsJsonInt(x) THEN Parsed(JInt(IntValue(x)))
    ELSE IF IsJsonString(x) THEN Parsed(JStr(Unquoted(x)))
    ELSE IF Len(x) >= 2 /\ Char(x, 1) = "{" /\ Char(x, Len(x)) = "}"
    THEN LET inner == JsonStrip(SubSeq(x, 2, Len(x) - 1))
             colon == ColonAt(inner)
             key == JsonStrip(SubSeq(inner, 1, colon - 1))
             value == JsonStrip(SubSeq(inner, colon + 1, Len(inner)))
         IN IF inner = "" THEN Parsed(JObject(""))
            ELSE IF colon > 0 /\ IsJsonString(key) /\ IsJsonString(value)
            THEN Parsed(JObject(Unquoted(key) \o "=" \o Unquoted(value)))
            ELSE DecodeError
    ELSE DecodeError

\* The fields of a JSON object of a "data" list; isdict tells objects from
\* other entries and is no field.
FieldsOf(raw_device) == DOMAIN raw_device \ {"isdict"}

\* A normalisation that copies the records as they are.
normalize_device_data_unparsed(data) ==
    IF ~data.islist THEN <<>>
    ELSE LET kept == SelectSeq(data.items, LAMBDA e : e.isdict)
         IN [i \in 1..Len(kept) |->
                [field \in FieldsOf(kept[i]) |-> kept[i][field]]]

\* _normalize_device_data: a value that is no list gives [], entries that are
\* no JSON object are dropped, the others are copied with a model or config
\* string replaced by its parsed value unless the parse raises.
normalize_device_data(data) ==
    IF ~data.islist THEN <<>>
    ELSE LET kept == SelectSeq(data.items, LAMBDA e : e.isdict)
             device(raw_device) ==
                 [field \in FieldsOf(raw_device) |->
                     IF field \in {"model", "config"}
                        /\ raw_device[field].t = "str"
                        /\ json_loads(raw_device[field].s).ok
                     THEN json_loads(raw_device[field].s).v
                     ELSE raw_device[field]]
         IN [i \in 1..Len(kept) |-> device(kept[i])]

\* async_get_states: the mapping built from the device list.
\* A dict comprehension with the first record of a key kept.
StateMap_first_wins(devices) ==
    LET withId == SelectSeq(devices, LAMBDA d : d.id.t # "null")
        keys == {PyStr(withId[i].id) : i \in 1..Len(withId)}
    IN [key \in keys |->
           withId[CHOOSE i \in 1..Len(withId) :
                      /\ PyStr(withId[i].id) = key
                      /\ \A j \in 1..(i - 1) : PyStr(withId[j].id) # key]]

StateMap(devices) ==
    LET withId == SelectSeq(devices, LAMBDA d : d.id.t # "null")
        keys == {PyStr(withId[i].id) : i \in 1..Len(withId)}
    IN [key \in keys |->
           withId[CHOOSE i \in 1..Len(withId) :
                      /\ PyStr(withId[i].id) = key
                      /\ \A j \in (i + 1)..Len(withId) :
                             PyStr(withId[j].id) # key]]

\* async_get_devices returns its list to the public operation that called
\* it: async_get_devices itself, async_get_states, async_validate_credentials.
GetDevicesReturn(c) ==
    IF c.k.op = "get_states"
    THEN Return([c EXCEPT !.k.states = StateMap(c.k.devices)])
    ELSE Return(c)

async_get_c800_device(c, device_id) ==
    request(c,
            Req("c800", None, auth_headers(c.s), device_id, <<device_id>>, 0, ""),
            TRUE)

\* The for loop of async_get_c800_devices, from its next iteration on.
\* c800_left is what is left of the list object the loop iterates.
RECURSIVE C800Loop(_)
C800Loop(c) ==
    IF Len(c.k.c800_left) = 0 THEN GetDevicesReturn(c)
    ELSE LET device_id == Head(c.k.c800_left)
             rest == [c EXCEPT !.k.c800_left = Tail(@)]
         IN IF ~IsDigit(LStripMinus(device_id)) THEN C800Loop(rest)
            ELSE IF ~IntParses(device_id) THEN Raise(rest, "valueerror")
            ELSE IF IntValue(device_id) <= 0 THEN C800Loop(rest)
            ELSE async_get_c800_device(rest, device_id)

async_get_c800_devices(c) ==
    C800Loop([c EXCEPT !.k.c800_left = c.s.c800_ids])

\* async_get_eco_devices up to its await; with no ECO id it returns [] and
\* async_get_devices goes on to the C800 devices.
async_get_eco_devices(c) ==
    IF Len(c.s.eco_ids) = 0 THEN async_get_c800_devices(c)
    ELSE request(c,
                 Req("eco", None, auth_headers(c.s), JoinComma(c.s.eco_ids),
                     c.s.eco_ids, 0, ""),
                 TRUE)

\* casa/elenco2/<user id> with the token headers.
FetchHouseRequest(c) ==
    request(c,
            Req("house", c.s.user_id, auth_headers(c.s), "", <<>>, 0, ""),
            TRUE)

async_fetch_house_and_split_device_ids(c) ==
    IF Falsy(c.s.user_id) THEN async_authenticate(c, "fetch")
    ELSE FetchHouseRequest(c)

async_get_devices(c) ==
    IF Falsy(c.s.auth_token) \/ Falsy(c.s.user_id)
    THEN async_authenticate(c, "get_devices")
    ELSE async_fetch_house_and_split_device_ids(c)

async_set_c800_state(c, serial, target_temperature, hvac_mode, model) ==
    IF model # "C800WiFi" THEN Raise(c, "error")
    ELSE request(c,
                 Req("c800_write", None, auth_headers(c.s), serial, <<>>,
                     mode_to_int(hvac_mode), ""),
                 TRUE)

\* A write that sends its request before it looks at its arguments.
async_set_eco_state_unvalidated(c, serial, mode, speed) ==
    request(c, Req("eco_write", None, auth_headers(c.s), "", <<>>, 0, ""), TRUE)

async_set_eco_state(c, serial, mode, speed) ==
    IF Falsy(serial) THEN Raise(c, "error")
    ELSE LET trama == eco_trama(serial, mode, speed) IN
         IF ~trama.ok THEN Raise(c, "error")
         ELSE request(c,
                      Req("eco_write", None, auth_headers(c.s), "", <<>>, 0,
                          trama.trama),
                      TRUE)

(***************************************************************************)
(* What the coroutines do with an answer.                                  *)
(***************************************************************************)
\* JSON truth value of a login field: null, "" and 0 are false.
JFalsy(item) ==
    \/ item.t = "null"
    \/ item.t = "str" /\ item.s = ""
    \/ item.t = "int" /\ item.n = 0

\* The statement after "await self.async_authenticate()" in the caller.
AfterAuthenticate(c) ==
    IF c.k.cont = "api" THEN Return(c)
    ELSE IF c.k.cont = "get_devices"
    THEN async_fetch_house_and_split_device_ids(c)
    ELSE IF c.k.cont = "fetch" THEN FetchHouseRequest(c)
    ELSE Send([c EXCEPT !.k.deferred = NoReq], c.k.deferred)

\* async_authenticate without its check of the status field.
LoginPayload_any_status(c, p) ==
    IF JFalsy(p.token) \/ JFalsy(p.id) THEN Raise(c, "auth")
    ELSE AfterAuthenticate([c EXCEPT !.s.auth_token = PyStr(p.token),
                                     !.s.user_id = PyStr(p.id)])

\* async_authenticate after _request has returned the login payload.
LoginPayload(c, p) ==
    IF p.status # "OK" THEN Raise(c, "auth")
    ELSE IF JFalsy(p.token) \/ JFalsy(p.id) THEN Raise(c, "auth")
    ELSE AfterAuthenticate([c EXCEPT !.s.auth_token = PyStr(p.token),
                                     !.s.user_id = PyStr(p.id)])

\* [str(item) for item in payload if item not in (None, "")], [] for a
\* value that is no list.
SplitIds(ids_payload) ==
    IF ~ids_payload.islist THEN <<>>
    ELSE LET kept == SelectSeq(ids_payload.items, LAMBDA item : ~NullOrEmpty(item))
         IN [i \in 1..Len(kept) |-> PyStr(kept[i])]

\* A cache update that leaves the ECO list for later.
CacheHouse_without_eco(s, p) ==
    IF ~p.houses.isdict \/ Len(p.houses.keys) = 0
    THEN [s EXCEPT !.house_id = None, !.c800_ids = <<>>]
    ELSE [s EXCEPT !.house_id = Head(p.houses.keys),
                   !.c800_ids = SplitIds(p.cronoIDs)]

\* A cache update that keeps the cache when no house is listed.
CacheHouse_keeping_on_empty(s, p) ==
    IF ~p.houses.isdict \/ Len(p.houses.keys) = 0
    THEN s
    ELSE [s EXCEPT !.house_id = Head(p.houses.keys),
                   !.c800_ids = SplitIds(p.cronoIDs),
                   !.eco_ids = SplitIds(p.ecoIDs)]

\* The cache update of async_fetch_house_and_split_device_ids.
CacheHouse(s, p) ==
    IF ~p.houses.isdict \/ Len(p.houses.keys) = 0
    THEN [s EXCEPT !.house_id = None, !.c800_ids = <<>>, !.eco_ids = <<>>]
    ELSE [s EXCEPT !.house_id = Head(p.houses.keys),
                   !.c800_ids = SplitIds(p.cronoIDs),
                   !.eco_ids = SplitIds(p.ecoIDs)]

\* The statement after the house discovery in the caller.
AfterFetchHouse(c) ==
    IF c.k.op = "fetch_house" THEN Return(c) ELSE async_get_eco_devices(c)

\* async_fetch_house_and_split_device_ids after _request has returned.
HousePayload(c, p) ==
    IF p.status = "NO_AUTH" THEN Raise(c, "auth")
    ELSE LET s1 == CacheHouse(c.s, p) IN
         AfterFetchHouse([c EXCEPT !.s = s1,
                                   !.k.discovered =
                                       [done |-> TRUE, c800_ids |-> s1.c800_ids,
                                        eco_ids |-> s1.eco_ids]])

\* async_get_eco_devices that does not look at the status field.
EcoPayload_ignoring_status(c, p) ==
    async_get_c800_devices(
        [c EXCEPT !.k.devices = @ \o normalize_device_data(p.data)])

\* async_get_eco_devices after _request has returned.
EcoPayload(c, p) ==
    IF p.status = "NO_AUTH" THEN Raise(c, "auth")
    ELSE async_get_c800_devices(
             [c EXCEPT !.k.devices = @ \o normalize_device_data(p.data)])

\* async_get_c800_device after _request has returned.
C800Payload(c, p) ==
    IF p.status = "NO_AUTH" THEN Raise(c, "auth")
    ELSE C800Loop([c EXCEPT !.k.devices = @ \o normalize_device_data(p.data)])

\* async_set_c800_state after _request has returned: the status is logged.
SetC800Payload(c, p) == Return(c)

\* str(value or "")
StrOrEmpty(v) == IF Falsy(v) THEN "" ELSE v

\* async_set_eco_state after _request has returned.
SetEcoPayload(c, p) ==
    LET response_status == StrOrEmpty(p.status)
        response_serial == StrOrEmpty(p.serial)
        response_trama == Upper(StrOrEmpty(p.trama))
        expected_serial == normalize_eco_serial(c.k.args.serial)
    IN IF response_status # "OK" THEN Raise(c, "error")
       ELSE IF ~expected_serial.ok THEN Raise(c, "error")
       ELSE IF response_serial # "" /\ response_serial # expected_serial.serial
       THEN Raise(c, "error")
       ELSE IF ~is_expected_eco_trama(response_trama, c.k.req.trama)
       THEN Raise(c, "error")
       ELSE Return(c)

\* Except clauses that treat a timeout like a rejected token.
RequestError_timeout_as_auth(c, cls) ==
    IF cls \in {"timeout", "http401", "http403"}
    THEN Raise([c EXCEPT !.s = EmptySession], "auth")
    ELSE IF cls \in {"client_error", "gaierror", "http500",
                     "typeerror_getaddrinfo"}
    THEN Raise(c, "comm")
    ELSE Raise(c, "error")

\* Except clauses whose reset forgets the token and keeps the user id.
RequestError_keeping_user_id(c, cls) ==
    IF cls \in {"timeout", "client_error", "gaierror", "http500",
                "typeerror_getaddrinfo"}
    THEN Raise(c, "comm")
    ELSE IF cls \in {"http401", "http403"}
    THEN Raise([c EXCEPT !.s = [EmptySession EXCEPT !.user_id = c.s.user_id]],
               "auth")
    ELSE Raise(c, "error")

\* The except clauses of _request for an outcome that delivers no payload.
RequestError(c, cls) ==
    IF cls = "timeout" THEN Raise(c, "comm")
    ELSE IF cls \in {"client_error", "gaierror", "http500"} THEN Raise(c, "comm")
    ELSE IF cls = "typeerror_getaddrinfo" THEN Raise(c, "comm")
    ELSE IF cls = "typeerror_other" THEN Raise(c, "error")
    ELSE IF cls \in {"http401", "http403"}
    THEN Raise([c EXCEPT !.s = EmptySession], "auth")
    ELSE Raise(c, "error")

(***************************************************************************)
(* Steps                                                                   *)
(***************************************************************************)
Init ==
    /\ auth_token = None
    /\ user_id = None
    /\ house_id = None
    /\ c800_ids = <<>>
    /\ eco_ids = <<>>
    /\ task = [t \in Tasks |-> IdleTask]
    /\ calls = 0
    /\ last_gd_noauth = FALSE
    /\ pure = NoEvaluation

\* The arguments the callers pass to the two writes.
C800Args ==
    {[NoArgs EXCEPT !.serial = "C1", !.target_temperature = 21,
                    !.hvac_mode = "heat", !.model = m] :
        m \in {"C800WiFi", "C800", None}}
    \cup {[NoArgs EXCEPT !.serial = "C1", !.target_temperature = 20,
                         !.hvac_mode = h, !.model = "C800WiFi"] :
             h \in {"off", "auto"}}

EcoArgs ==
    {[NoArgs EXCEPT !.serial = "12345678", !.mode = 1, !.speed = 2],
     [NoArgs EXCEPT !.serial = "", !.mode = 1, !.speed = 2],
     [NoArgs EXCEPT !.serial = "AB-12", !.mode = 256, !.speed = 0],
     [NoArgs EXCEPT !.serial = "AB-12", !.mode = 0, !.speed = -1],
     [NoArgs EXCEPT !.serial = "abc", !.mode = 1, !.speed = 2],
     [NoArgs EXCEPT !.serial = "123456789", !.mode = 1, !.speed = 2]}

\* The context of task t with the answer out recorded for its request.
Answered(t, out) ==
    [s |-> Session,
     k |-> [task[t] EXCEPT !.log[Len(task[t].log)].out = out]]

\* A get_devices call has just failed on a "NO_AUTH" status.
NoAuthFailure(k) ==
    /\ k.op = "get_devices"
    /\ k.result = "auth"
    /\ Len(k.log) > 0
    /\ k.log[Len(k.log)].kind \in {"house", "eco", "c800"}
    /\ k.log[Len(k.log)].out.cls = "payload"
    /\ k.log[Len(k.log)].out.p.status = "NO_AUTH"

\* The step's effect on the client and on task t.
Commit(t, c) ==
    /\ auth_token' = c.s.auth_token
    /\ user_id' = c.s.user_id
    /\ house_id' = c.s.house_id
    /\ c800_ids' = c.s.c800_ids
    /\ eco_ids' = c.s.eco_ids
    /\ task' = [task EXCEPT ![t] = c.k]
    /\ last_gd_noauth' =
           IF c.k.pc = "done" THEN NoAuthFailure(c.k)
           ELSE IF Len(c.k.log) = 1 /\ c.k.log[1].out = Pending THEN FALSE
           ELSE last_gd_noauth
    /\ UNCHANGED pure

\* Task t is free and the caller invokes the public operation op.
Called(t, op, args) ==
    [s |-> Session,
     k |-> [IdleTask EXCEPT
               !.op = op, !.args = args, !.cont = "api",
               !.no_token_at_start = Falsy(auth_token),
               !.after_noauth =
                   /\ op = "get_devices"
                   /\ last_gd_noauth
                   /\ \A u \in Tasks \ {t} : task[u].pc # "await"]]

\* A coroutine that has ended hands its result to the caller awaiting it
\* before the event loop runs anything else.
NoneDone == \A u \in Tasks : task[u].pc # "done"

CanCall(t) ==
    /\ NoneDone
    /\ task[t].pc = "idle"
    /\ calls < MaxCalls
    /\ calls' = calls + 1

Authenticate(t) ==
    /\ CanCall(t)
    /\ Commit(t, async_authenticate(Called(t, "authenticate", NoArgs), "api"))

FetchHouse(t) ==
    /\ CanCall(t)
    /\ Commit(t, async_fetch_house_and_split_device_ids(
                     Called(t, "fetch_house", NoArgs)))

GetDevices(t) ==
    /\ CanCall(t)
    /\ Commit(t, async_get_devices(Called(t, "get_devices", NoArgs)))

\* async_get_states awaits async_get_devices.
GetStates(t) ==
    /\ CanCall(t)
    /\ Commit(t, async_get_devices(Called(t, "get_states", NoArgs)))

\* async_validate_credentials awaits async_get_devices.
ValidateCredentials(t) ==
    /\ CanCall(t)
    /\ Commit(t, async_get_devices(Called(t, "validate_credentials", NoArgs)))

SetC800State(t) ==
    /\ CanCall(t)
    /\ \E a \in C800Args :
           Commit(t, async_set_c800_state(Called(t, "set_c800_state", a),
                                          a.serial, a.target_temperature,
                                          a.hvac_mode, a.model))

SetEcoState(t) ==
    /\ CanCall(t)
    /\ \E a \in EcoArgs :
           Commit(t, async_set_eco_state(Called(t, "set_eco_state", a),
                                         a.serial, a.mode, a.speed))

Awaits(t, kind) ==
    NoneDone /\ task[t].pc = "await" /\ task[t].req.kind = kind

\* The request of task t ends without a JSON object.
RequestFails(t) ==
    /\ NoneDone
    /\ task[t].pc = "await"
    /\ \E cls \in FailureClasses :
           Commit(t, RequestError(Answered(t, [cls |-> cls, p |-> NoPayload]), cls))
    /\ UNCHANGED calls

Payload(p) == [cls |-> "payload", p |-> p]

LoginResponse(t) ==
    /\ Awaits(t, "login")
    /\ \E p \in LoginPayloads : Commit(t, LoginPayload(Answered(t, Payload(p)), p))
    /\ UNCHANGED calls

HouseResponse(t) ==
    /\ Awaits(t, "house")
    /\ \E p \in HousePayloads : Commit(t, HousePayload(Answered(t, Payload(p)), p))
    /\ UNCHANGED calls

EcoResponse(t) ==
    /\ Awaits(t, "eco")
    /\ \E p \in DevicePayloads(task[t].req.asked) :
           Commit(t, EcoPayload(Answered(t, Payload(p)), p))
    /\ UNCHANGED calls

C800Response(t) ==
    /\ Awaits(t, "c800")
    /\ \E p \in DevicePayloads(task[t].req.asked) :
           Commit(t, C800Payload(Answered(t, Payload(p)), p))
    /\ UNCHANGED calls

SetC800Response(t) ==
    /\ Awaits(t, "c800_write")
    /\ \E p \in SetC800Payloads :
           Commit(t, SetC800Payload(Answered(t, Payload(p)), p))
    /\ UNCHANGED calls

SetEcoResponse(t) ==
    /\ Awaits(t, "eco_write")
    /\ \E p \in SetEcoPayloads(normalize_eco_serial(task[t].args.serial).serial,
                               task[t].req.trama) :
           Commit(t, SetEcoPayload(Answered(t, Payload(p)), p))
    /\ UNCHANGED calls

\* The caller cancels task t while its request is in flight: CancelledError
\* leaves _request through none of its except clauses.
Cancel(t) ==
    /\ NoneDone
    /\ task[t].pc = "await"
    /\ Commit(t, Raise(Answered(t, [cls |-> "cancelled", p |-> NoPayload]),
                       "cancelled"))
    /\ UNCHANGED calls

\* The caller of the public operation receives its result or its exception;
\* the task is free for the next call.
Returned(t) ==
    /\ task[t].pc = "done"
    /\ task' = [task EXCEPT ![t] = IdleTask]
    /\ UNCHANGED <<sessionVars, calls, last_gd_noauth, pure>>

Next ==
    \E t \in Tasks :
        \/ Authenticate(t)
        \/ FetchHouse(t)
        \/ GetDevices(t)
        \/ GetStates(t)
        \/ ValidateCredentials(t)
        \/ SetC800State(t)
        \/ SetEcoState(t)
        \/ RequestFails(t)
        \/ LoginResponse(t)
        \/ HouseResponse(t)
        \/ EcoResponse(t)
        \/ C800Response(t)
        \/ SetC800Response(t)
        \/ SetEcoResponse(t)
        \/ Cancel(t)
        \/ Returned(t)

Spec == Init /\ [][Next]_vars

(***************************************************************************)
(* Helpers and host-side consumers evaluated on their own: the input is    *)
(* drawn in the initial state, one step applies the code to it.            *)
(***************************************************************************)
\* A device record: its id and what else distinguishes it.
DeviceRecords ==
    {[id |-> v, name |-> n] :
        v \in {JNull, JInt(7), JStr("7"), JStr("8")}, n \in {"a", "b"}}

\* The device lists async_get_devices may return.
DeviceLists ==
    {<<>>} \cup {<<x>> : x \in DeviceRecords}
        \cup {<<x, y>> : x, y \in DeviceRecords}
        \cup {<<x, y, z>> : x, y, z \in DeviceRecords}

Evaluation(fn, arg) == [fn |-> fn, done |-> FALSE, arg |-> arg]

\* How an awaited client call ends for its caller: it returns, or it raises
\* one of the client's exception classes, or an exception of another class
\* passes through it.
CallResults == {"ok", "auth", "comm", "error", "valueerror"}

\* isinstance(exception, base) for the classes above: the authentication and
\* the communication error derive from IntelliclimaApiClientError.
IsInstance(cls, base) ==
    \/ cls = base
    \/ base = "error" /\ cls \in {"auth", "comm"}

\* _async_update_data with its except clauses in the opposite order.
async_update_data_error_first(result) ==
    IF result = "ok" THEN "data"
    ELSE IF IsInstance(result, "error") THEN "UpdateFailed"
    ELSE IF IsInstance(result, "auth") THEN "ConfigEntryAuthFailed"
    ELSE result

\* _async_update_data: what the coordinator hands to Home Assistant for the
\* way async_get_devices ended.
async_update_data(result) ==
    IF result = "ok" THEN "data"
    ELSE IF IsInstance(result, "auth") THEN "ConfigEntryAuthFailed"
    ELSE IF IsInstance(result, "error") THEN "UpdateFailed"
    ELSE result

\* async_step_user: input is whether the form was submitted, how
\* _test_credentials ended and whether the unique id is configured already.
async_step_user(input) ==
    IF ~input.submitted THEN [type |-> "form", base |-> None]
    ELSE IF IsInstance(input.result, "auth") THEN [type |-> "form", base |-> "auth"]
    ELSE IF IsInstance(input.result, "comm")
    THEN [type |-> "form", base |-> "connection"]
    ELSE IF IsInstance(input.result, "error")
    THEN [type |-> "form", base |-> "unknown"]
    ELSE IF input.result # "ok" THEN [type |-> input.result, base |-> None]
    ELSE IF input.configured THEN [type |-> "abort", base |-> None]
    ELSE [type |-> "create_entry", base |-> None]

StepUserInputs ==
    {[submitted |-> FALSE, result |-> "ok", configured |-> FALSE]}
        \cup {[submitted |-> TRUE, result |-> r, configured |-> c] :
                 r \in CallResults, c \in BOOLEAN}

\* Serials: 1 to 8 digits with and without other characters, and serials
\* the normalisation rejects.
FrameSerials ==
    {"12345678", "1", "AB-12", "0000-0000", "98765432", "12 345", "", "abc",
     "123456789"}

\* Mode and speed bytes at the edges of 0..255 and beyond them.
EdgeBytes == {-1, 0, 1, 2, 15, 16, 127, 128, 255, 256}

\* Every mode and speed byte for one serial, the edge values for the others.
FrameInputs ==
    {[serial |-> "12345678", mode |-> m, speed |-> v] :
        m \in 0..255, v \in 0..255}
        \cup {[serial |-> x, mode |-> m, speed |-> v] :
                 x \in FrameSerials, m \in EdgeBytes, v \in EdgeBytes}

\* str.strip for blanks
RECURSIVE Strip(_)
Strip(s) ==
    IF Len(s) > 0 /\ Char(s, 1) = " " THEN Strip(Tail(s))
    ELSE IF Len(s) > 0 /\ Char(s, Len(s)) = " "
    THEN Strip(SubSeq(s, 1, Len(s) - 1))
    ELSE s

\* str(value or "").strip() for a JSON value
StrippedOrEmpty(v) == IF JFalsy(v) THEN "" ELSE Strip(PyStr(v))

\* get_hvac_mode of a device record; config is a JSON object with a mode
\* field, or anything else.
get_hvac_mode(device) ==
    LET mode == StrippedOrEmpty(device.hvac_mode) IN
    IF mode = "2" THEN "auto"
    ELSE IF mode = "1" THEN "heat"
    ELSE LET cfg == device.config IN
         IF cfg.isdict /\ StrippedOrEmpty(cfg.mode) = "2" THEN "auto"
         ELSE IF cfg.isdict /\ StrippedOrEmpty(cfg.mode) = "1" THEN "heat"
         ELSE "off"

\* Values of a mode field; JNull is also the absent field.
ModeValues ==
    {JNull, JStr(""), JStr("0"), JStr("1"), JStr("2"), JStr(" 2 "), JStr("3"),
     JInt(0), JInt(1), JInt(2)}

\* The config field: absent or no JSON object, or an object with a mode.
ConfigValues ==
    {[isdict |-> FALSE, mode |-> JNull]}
        \cup {[isdict |-> TRUE, mode |-> m] : m \in ModeValues}

HvacRecords ==
    {[hvac_mode |-> m, config |-> c] : m \in ModeValues, c \in ConfigValues}

\* An optional integer: Python's None, or an int.
NoInt == [some |-> FALSE, n |-> 0]

SomeInt(x) == [some |-> TRUE, n |-> x]

\* _to_int: int(str(value)), None when str(value) is no integer literal.
\* int() ignores blanks around the literal.
to_int(value) ==
    IF value.t = "int" THEN SomeInt(value.n)
    ELSE IF value.t = "str" /\ IntParses(Strip(value.s))
    THEN SomeInt(IntValue(Strip(value.s)))
    ELSE NoInt

\* "a or b" on two JSON values
PyOr(x, y) == IF JFalsy(x) THEN y ELSE x

MIN_NATIVE_FAN_LEVEL == 0

MAX_NATIVE_FAN_LEVEL == 4

TRANSLATED_FAN_LEVEL_MIN == 16

TRANSLATED_FAN_LEVEL_MAX == 19

TRANSLATED_FAN_LEVEL_OFFSET == 15

Min(x, y) == IF x < y THEN x ELSE y

Max(x, y) == IF x > y THEN x ELSE y

\* _fan_level of the fan entity on its state record; JNull is also the
\* absent field.
fan_level(state) ==
    LET speed == to_int(PyOr(state.speed_state, state.speed_set)) IN
    IF ~speed.some THEN NoInt
    ELSE IF MIN_NATIVE_FAN_LEVEL <= speed.n /\ speed.n <= MAX_NATIVE_FAN_LEVEL
    THEN speed
    ELSE IF TRANSLATED_FAN_LEVEL_MIN <= speed.n
            /\ speed.n <= TRANSLATED_FAN_LEVEL_MAX
    THEN SomeInt(speed.n - TRANSLATED_FAN_LEVEL_OFFSET)
    ELSE SomeInt(Max(MIN_NATIVE_FAN_LEVEL, Min(MAX_NATIVE_FAN_LEVEL, speed.n)))

\* Values of a speed field as strings and as numbers.
SpeedValues ==
    {JNull, JStr(""), JStr("0"), JStr("2"), JStr(" 3 "), JStr("9"),
     JStr("17"), JStr("-3"), JStr("abc"), JStr("2.5")}
        \cup {JInt(x) : x \in {-1, 0, 1, 2, 4, 5, 9, 15, 16, 17, 19, 20}}

SpeedRecords ==
    {[speed_state |-> x, speed_set |-> y] : x, y \in SpeedValues}

\* An optional temperature: Python's None, or a float held in tenths of a
\* degree.
NoFloat == [some |-> FALSE, tenths |-> 0]

SomeFloat(x) == [some |-> TRUE, tenths |-> x]

\* Position of the first "." of s, 0 when there is none.
DotAt(s) ==
    IF \E i \in 1..Len(s) : Char(s, i) = "."
    THEN CHOOSE i \in 1..Len(s) :
             Char(s, i) = "." /\ \A j \in 1..(i - 1) : Char(s, j) # "."
    ELSE 0

\* float(s) for the literals the inputs use: an integer literal, or an
\* integer literal followed by "." and one digit; anything else raises
\* ValueError.
FloatOfStr(s) ==
    LET x == Strip(s)
        dot == DotAt(x)
    IN IF IntParses(x) THEN SomeFloat(10 * IntValue(x))
       ELSE IF dot > 1 /\ dot = Len(x) - 1
               /\ IntParses(SubSeq(x, 1, dot - 1))
               /\ IsDigit(SubSeq(x, dot + 1, Len(x)))
       THEN LET whole == IntValue(SubSeq(x, 1, dot - 1))
                frac == DecValue(SubSeq(x, dot + 1, Len(x)))
            IN SomeFloat(IF Char(x, 1) = "-" THEN 10 * whole - frac
                         ELSE 10 * whole + frac)
       ELSE NoFloat

\* _as_float: None for None and "", float(value) otherwise, None when float
\* raises.
as_float(value) ==
    IF NullOrEmpty(value) THEN NoFloat
    ELSE IF value.t = "int" THEN SomeFloat(10 * value.n)
    ELSE FloatOfStr(value.s)

\* get_current_temperature; JNull is also the absent field.
get_current_temperature(device) ==
    as_float(PyOr(device.t_amb, device.tamb))

\* get_target_temperature
get_target_temperature(device) ==
    as_float(PyOr(PyOr(device.tmanw, device.tmans), device.tset))

\* Values of a temperature field as strings and as numbers.
TempValues ==
    {JNull, JStr(""), JStr("0"), JStr("0.0"), JStr("21.5"), JStr("-3.5"),
     JStr("abc"), JInt(0), JInt(19)}

AmbientRecords == {[t_amb |-> x, tamb |-> y] : x, y \in TempValues}

SetpointRecords ==
    {[tmanw |-> x, tmans |-> y, tset |-> z] : x, y, z \in TempValues}

\* Keys a device-listing object may carry its list under.
ListKeys == <<"data", "devices", "results", "items">>

\* The lists found in a response; the ids tell them apart.
ListValues ==
    {JList(<<DeviceEntry("7")>>), JList(<<JunkEntry, DeviceEntry("8")>>)}

\* A parsed response body of a device query: a JSON object with a status and
\* lists under some of the keys, or a JSON list.
ListingResponses ==
    {[isdict |-> TRUE, status |-> st, fields |-> fl, top |-> NotAList] :
        st \in {"OK", "NO_AUTH"},
        fl \in UNION {[K -> ListValues] :
                         K \in SUBSET {ListKeys[i] : i \in 1..Len(ListKeys)}}}
        \cup {[isdict |-> FALSE, status |-> None, fields |-> <<>>, top |-> l] :
                 l \in ListValues}

\* dict.get(key, default)
GetOr(fields, key, default) ==
    IF key \in DOMAIN fields THEN fields[key] ELSE default

\* What a device query makes of the parsed body of its answer:
\* _load_json_or_raise inside _request, then the status test and the
\* normalisation of payload.get("data", []).
device_query_result(response) ==
    IF ~response.isdict THEN [raised |-> "error", devices |-> <<>>]
    ELSE IF response.status = "NO_AUTH"
    THEN [raised |-> "auth", devices |-> <<>>]
    ELSE [raised |-> "none",
          devices |-> normalize_device_data(
                          GetOr(response.fields, "data", JList(<<>>)))]

\* Byte values at the edges and in between.
CrcEdgeBytes == {0, 1, 2, 15, 16, 49, 85, 127, 128, 129, 170, 197, 254, 255}

\* Byte strings handed to _crc8_eco: the empty one, every single byte, pairs
\* and triples of edge bytes, and longer ones.
CrcInputs ==
    {<<>>} \cup {<<b>> : b \in 0..255}
        \cup {<<x, y>> : x, y \in CrcEdgeBytes}
        \cup {<<x, y, z>> : x, y, z \in {0, 1, 128, 255}}
        \cup {<<49, 50, 51, 52, 53, 54, 55, 56, 57>>,
              <<10, 0, 0, 0, 18, 0, 14, 47, 0, 80, 0, 0, 255, 0>>}

\* Values of a model or config field: texts that are JSON and texts that are
\* not, and values that are no string.
FieldValues ==
    {JNull, JInt(3), JObject("modello=ECO"),
     JStr("{\"modello\":\"ECO\"}"), JStr(" { \"tipo\" : \"wifi\" } "),
     JStr("{}"), JStr("12"), JStr("null"), JStr("true"), JStr("\"ECO\""),
     JStr("ECO"), JStr(""), JStr("{\"modello\":\"ECO\""), JStr("{modello}"),
     JStr("012")}

\* The JSON objects of a "data" list.
RawDevices ==
    {[isdict |-> TRUE, id |-> JStr("7"), model |-> m, config |-> c] :
        m, c \in FieldValues}

\* Objects to follow another entry in a list.
SecondDevices ==
    {[isdict |-> TRUE, id |-> JStr("8"), model |-> JStr("{}"),
      config |-> JStr("ECO")],
     [isdict |-> TRUE, id |-> JNull, model |-> JStr("ECO"),
      config |-> JStr("\"ECO\"")]}

\* The values handed to _normalize_device_data: lists of objects and other
\* entries, and a value that is no list.
RawLists ==
    {NotAList, JList(<<>>), JList(<<JunkEntry>>)}
        \cup {JList(<<x>>) : x \in RawDevices}
        \cup {JList(<<x, JunkEntry, y>>) : x \in RawDevices, y \in SecondDevices}
        \cup {JList(<<JunkEntry, y, x>>) : x \in RawDevices, y \in SecondDevices}

MODE_ALTERNATING_SENSOR == 4

\* mode_by_preset of the fan / MODE_OPTION_TO_VALUE of the mode select.
MODE_OPTION_TO_VALUE ==
    ("outdoor_intake" :> 1) @@ ("indoor_exhaust" :> 2)
        @@ ("alternating_45s" :> 3) @@ ("alternating_sensor" :> 4)

SPEED_OPTION_TO_VALUE ==
    ("off" :> 0) @@ ("sleep" :> 1) @@ ("vel1" :> 2) @@ ("vel2" :> 3)
        @@ ("vel3" :> 4) @@ ("auto" :> 16)

\* One call of client.async_set_eco_state by an entity's _async_apply.
EcoWrite(mode, speed) == [mode |-> mode, speed |-> speed]

\* _mode_value of the fan entity: mode_state, else mode_set.
fan_mode_value(state) ==
    IF to_int(state.mode_state).some THEN to_int(state.mode_state)
    ELSE to_int(state.mode_set)

\* _mode_value of the select entities.
select_mode_value(state) ==
    LET mode == fan_mode_value(state) IN
    IF ~mode.some \/ mode.n >= 128 THEN MODE_ALTERNATING_SENSOR ELSE mode.n

\* _speed_value of the select entities.
select_speed_value(state) ==
    LET speed == IF to_int(state.speed_state).some
                 THEN to_int(state.speed_state)
                 ELSE to_int(state.speed_set)
    IN IF ~speed.some THEN 1 ELSE speed.n

\* round((pct / 100) * MAX_NATIVE_FAN_LEVEL) for an integer pct in 0..100;
\* the product is never halfway between two integers.
RoundLevel(pct) == (MAX_NATIVE_FAN_LEVEL * pct + 50) \div 100

\* The operations below give the writes they make, in order.
fan_async_set_percentage(serial, state, percentage) ==
    IF serial = "" THEN <<>>
    ELSE LET pct == Max(0, Min(100, percentage))
             speed == Max(MIN_NATIVE_FAN_LEVEL,
                          Min(MAX_NATIVE_FAN_LEVEL, RoundLevel(pct)))
             mode == fan_mode_value(state)
         IN <<EcoWrite(IF ~mode.some \/ mode.n >= 128
                       THEN MODE_ALTERNATING_SENSOR ELSE mode.n,
                       speed)>>

fan_async_set_preset_mode(serial, state, preset_mode) ==
    IF serial = "" THEN <<>>
    ELSE IF preset_mode \notin DOMAIN MODE_OPTION_TO_VALUE THEN <<>>
    ELSE LET current_speed == fan_level(state)
             speed == IF ~current_speed.some THEN MAX_NATIVE_FAN_LEVEL
                      ELSE current_speed.n
         IN <<EcoWrite(MODE_OPTION_TO_VALUE[preset_mode],
                       IF speed <= 0 THEN 1 ELSE speed)>>

\* async_turn_on; refreshed is the state the refresh after the preset write
\* has delivered.
fan_async_turn_on(serial, state, refreshed, percentage, preset_mode) ==
    IF preset_mode # None
    THEN fan_async_set_preset_mode(serial, state, preset_mode)
             \o (IF percentage.some
                 THEN fan_async_set_percentage(serial, refreshed, percentage.n)
                 ELSE <<>>)
    ELSE fan_async_set_percentage(serial, state,
                                  IF percentage.some THEN percentage.n ELSE 25)

fan_async_turn_off(serial) ==
    IF serial = "" THEN <<>> ELSE <<EcoWrite(0, 0)>>

\* IntelliclimaEcoModeSelect.async_select_option
mode_select_option(serial, state, option) ==
    IF serial = "" THEN <<>>
    ELSE IF option \notin DOMAIN MODE_OPTION_TO_VALUE THEN <<>>
    ELSE LET speed == select_speed_value(state)
         IN <<EcoWrite(MODE_OPTION_TO_VALUE[option],
                       IF speed <= 0 THEN 1 ELSE speed)>>

\* IntelliclimaEcoSpeedSelect.async_select_option
speed_select_option(serial, state, option) ==
    IF serial = "" THEN <<>>
    ELSE IF option \notin DOMAIN SPEED_OPTION_TO_VALUE THEN <<>>
    ELSE IF SPEED_OPTION_TO_VALUE[option] = 0 THEN <<EcoWrite(0, 0)>>
    ELSE <<EcoWrite(select_mode_value(state), SPEED_OPTION_TO_VALUE[option])>>

\* A service call on one of the three ventilation entities.
ventilation_call(call) ==
    IF call.op = "fan.set_percentage"
    THEN fan_async_set_percentage(call.serial, call.state, call.percentage.n)
    ELSE IF call.op = "fan.set_preset_mode"
    THEN fan_async_set_preset_mode(call.serial, call.state, call.option)
    ELSE IF call.op = "fan.turn_on"
    THEN fan_async_turn_on(call.serial, call.state, call.refreshed,
                           call.percentage, call.option)
    ELSE IF call.op = "fan.turn_off" THEN fan_async_turn_off(call.serial)
    ELSE IF call.op = "mode.select_option"
    THEN mode_select_option(call.serial, call.state, call.option)
    ELSE speed_select_option(call.serial, call.state, call.option)

\* The state record of a ventilation unit after a refresh; mode 0 and speed
\* 0 is what a unit reports once it has been turned off.
VentilationStates ==
    {[mode_state |-> m, mode_set |-> c, speed_state |-> v, speed_set |-> w] :
        m \in {JNull, JInt(0), JStr("0"), JStr("1"), JInt(4), JInt(7),
               JInt(132), JStr("abc")},
        c \in {JNull, JStr("2")},
        v \in {JNull, JInt(0), JStr("0"), JStr("3"), JInt(17)},
        w \in {JNull, JStr("3")}}

\* States a refresh delivers after a preset write.
RefreshedStates ==
    {[mode_state |-> m, mode_set |-> JNull, speed_state |-> JStr("3"),
      speed_set |-> JNull] : m \in {JInt(0), JInt(2), JInt(132)}}

VentilationCall(op, serial, state, refreshed, percentage, option) ==
    [op |-> op, serial |-> serial, state |-> state, refreshed |-> refreshed,
     percentage |-> percentage, option |-> option]

Percentages == {-5, 0, 12, 13, 25, 50, 88, 100, 150}

VentilationCalls ==
    {VentilationCall("fan.set_percentage", x, s, s, SomeInt(p), None) :
        x \in {"12345678", ""}, s \in VentilationStates, p \in Percentages}
        \cup {VentilationCall("fan.turn_on", x, s, s, p, None) :
                 x \in {"12345678", ""}, s \in VentilationStates,
                 p \in {NoInt, SomeInt(0), SomeInt(50), SomeInt(100)}}
        \cup {VentilationCall("fan.turn_on", "12345678", s, r, p, o) :
                 s \in VentilationStates, r \in RefreshedStates,
                 p \in {NoInt, SomeInt(50)},
                 o \in {"indoor_exhaust", "boost"}}
        \cup {VentilationCall("fan.turn_off", x, s, s, NoInt, None) :
                 x \in {"12345678", ""}, s \in VentilationStates}
        \cup {VentilationCall(op, x, s, s, NoInt, o) :
                 op \in {"fan.set_preset_mode", "mode.select_option"},
                 x \in {"12345678", ""}, s \in VentilationStates,
                 o \in {"outdoor_intake", "alternating_sensor", "boost"}}
        \cup {VentilationCall("speed.select_option", x, s, s, NoInt, o) :
                 x \in {"12345678", ""}, s \in VentilationStates,
                 o \in DOMAIN SPEED_OPTION_TO_VALUE \cup {"boost"}}

\* The evaluation is one of a helper on one of its inputs.
PureInputs ==
    \/ pure \in {Evaluation("get_states", l) : l \in DeviceLists}
    \/ pure \in {Evaluation("get_hvac_mode", d) : d \in HvacRecords}
    \/ pure \in {Evaluation("eco_trama", i) : i \in FrameInputs}
    \/ pure \in {Evaluation("update_data", r) : r \in CallResults}
    \/ pure \in {Evaluation("step_user", i) : i \in StepUserInputs}
    \/ pure \in {Evaluation("fan_level", r) : r \in SpeedRecords}
    \/ pure \in {Evaluation("ventilation", v) : v \in VentilationCalls}
    \/ pure \in {Evaluation("normalize", l) : l \in RawLists}
    \/ pure \in {Evaluation("crc8_eco", b) : b \in CrcInputs}
    \/ pure \in {Evaluation("device_query", r) : r \in ListingResponses}
    \/ pure \in {Evaluation("current_temperature", r) : r \in AmbientRecords}
    \/ pure \in {Evaluation("target_temperature", r) : r \in SetpointRecords}

PureInit ==
    /\ auth_token = None
    /\ user_id = None
    /\ house_id = None
    /\ c800_ids = <<>>
    /\ eco_ids = <<>>
    /\ task = [t \in Tasks |-> IdleTask]
    /\ calls = 0
    /\ last_gd_noauth = FALSE
    /\ PureInputs

\* The code named fn is about to be applied to its input.
Applies(fn) == pure.fn = fn /\ ~pure.done

Applied(out) ==
    /\ pure' = [fn |-> pure.fn, done |-> TRUE, arg |-> pure.arg, out |-> out]
    /\ UNCHANGED <<sessionVars, task, calls, last_gd_noauth>>

\* The reduction of async_get_states on the list async_get_devices returned.
ReduceStates ==
    /\ Applies("get_states")
    /\ Applied(StateMap(pure.arg))

\* The coordinator's refresh after async_get_devices has ended.
UpdateData ==
    /\ Applies("update_data")
    /\ Applied(async_update_data(pure.arg))

\* The setup flow's user step.
StepUser ==
    /\ Applies("step_user")
    /\ Applied(async_step_user(pure.arg))

\* _eco_trama builds the frame for a serial, a mode and a speed.
EncodeFrame ==
    /\ Applies("eco_trama")
    /\ Applied(eco_trama(pure.arg.serial, pure.arg.mode, pure.arg.speed))

\* get_hvac_mode reads the mode of a device record.
ReadHvacMode ==
    /\ Applies("get_hvac_mode")
    /\ Applied(get_hvac_mode(pure.arg))

\* _fan_level reads the normalized level of a state record.
ReadFanLevel ==
    /\ Applies("fan_level")
    /\ Applied(fan_level(pure.arg))

\* get_current_temperature reads a device record.
ReadCurrentTemperature ==
    /\ Applies("current_temperature")
    /\ Applied(get_current_temperature(pure.arg))

\* get_target_temperature reads a device record.
ReadTargetTemperature ==
    /\ Applies("target_temperature")
    /\ Applied(get_target_temperature(pure.arg))

\* A device query receives the parsed body of its answer.
ReadDeviceListing ==
    /\ Applies("device_query")
    /\ Applied(device_query_result(pure.arg))

\* _crc8_eco computes the checksum of a byte string.
Checksum ==
    /\ Applies("crc8_eco")
    /\ Applied(crc8_eco(pure.arg))

\* _normalize_device_data normalises the value under "data".
Normalize ==
    /\ Applies("normalize")
    /\ Applied(normalize_device_data(pure.arg))

\* A service call on a ventilation entity makes its writes.
CallVentilation ==
    /\ Applies("ventilation")
    /\ Applied(ventilation_call(pure.arg))

PureNext ==
    \/ ReduceStates
    \/ ReadHvacMode
    \/ EncodeFrame
    \/ UpdateData
    \/ StepUser
    \/ ReadFanLevel
    \/ CallVentilation
    \/ Normalize
    \/ Checksum
    \/ ReadDeviceListing
    \/ ReadCurrentTemperature
    \/ ReadTargetTemperature

PureSpec == PureInit /\ [][PureNext]_vars

(***************************************************************************)
(* Properties                                                              *)
(***************************************************************************)
LastEntry(k) == k.log[Len(k.log)]

Ended(k, cls) == k.pc = "done" /\ k.result = cls

\* C1: whenever an operation ends with an authentication error (HTTP
\* 401/403, a rejected login, a "NO_AUTH" status), the token, the user id,
\* the house id and both id lists are empty when the error reaches the
\* caller.
C1_AuthErrorLeavesSessionEmpty ==
    \A t \in Tasks : Ended(task[t], "auth") => Session = EmptySession

\* C2: the get_devices call that follows a get_devices call that failed on a
\* "NO_AUTH" status sends a login request before any other request.
C2_LoginFirstAfterNoAuth ==
    \A t \in Tasks :
        (task[t].after_noauth /\ Len(task[t].log) > 0)
            => task[t].log[1].kind = "login"

AuthOps ==
    {"get_devices", "get_states", "validate_credentials", "set_c800_state",
     "set_eco_state"}

\* C3: an operation that needs auth and is invoked while the session holds no
\* token sends the login request before any other request, and a login
\* request is never followed by another login request it would have caused.
C3_LazyAuthentication ==
    \A t \in Tasks :
        /\ (task[t].op \in AuthOps /\ task[t].no_token_at_start
            /\ Len(task[t].log) > 0)
               => task[t].log[1].kind = "login"
        /\ \A i \in 1..(Len(task[t].log) - 1) :
               task[t].log[i].kind = "login" => task[t].log[i + 1].kind # "login"

\* A write invoked on an empty session has logged in and then sent its frame.
C3_Witness ==
    \E t \in Tasks :
        /\ task[t].op = "set_eco_state"
        /\ task[t].no_token_at_start
        /\ Len(task[t].log) = 2
        /\ task[t].log[1].kind = "login"
        /\ task[t].log[2].kind = "eco_write"

\* C4: every operation, the two writes included, whose request is answered
\* with the status "NO_AUTH" ends with the authentication error.
C4_NoAuthStatusIsAuthError ==
    \A t \in Tasks :
        (/\ task[t].pc = "done"
         /\ Len(task[t].log) > 0
         /\ LastEntry(task[t]).out.cls = "payload"
         /\ LastEntry(task[t]).out.p.status = "NO_AUTH")
            => task[t].result = "auth"

\* A request that failed with an authentication-class error: HTTP 401/403, a
\* login answer that is rejected, a "NO_AUTH" answer to the house listing or
\* to a device query.
AuthClassFailure(e) ==
    \/ e.out.cls \in {"http401", "http403"}
    \/ /\ e.out.cls = "payload"
       /\ \/ /\ e.kind = "login"
             /\ \/ e.out.p.status # "OK"
                \/ JFalsy(e.out.p.token)
                \/ JFalsy(e.out.p.id)
          \/ /\ e.kind \in {"house", "eco", "c800"}
             /\ e.out.p.status = "NO_AUTH"

C6_EndpointFallback ==
    \A t \in Tasks :
        (task[t].op = "get_devices" /\ Ended(task[t], "comm"))
            => /\ Len(task[t].log) >= 2
               /\ task[t].log[Len(task[t].log) - 1].kind = LastEntry(task[t]).kind
               /\ task[t].log[Len(task[t].log) - 1].out.cls \in FailureClasses

\* The ids of a discovery that a device query is sent for.
Queryable(d) ==
    {d.eco_ids[i] : i \in 1..Len(d.eco_ids)}
        \cup {d.c800_ids[i] : i \in {j \in 1..Len(d.c800_ids) :
                                        /\ IsDigit(d.c800_ids[j])
                                        /\ IntValue(d.c800_ids[j]) > 0}}

\* C7: a get_devices call that returns returns a record for every device id
\* its own discovery cached, whatever another operation does meanwhile.
C7_GetDevicesCoversItsDiscovery ==
    \A t \in Tasks :
        (task[t].op = "get_devices" /\ Ended(task[t], "ok"))
            => \A id \in Queryable(task[t].discovered) :
                   \E i \in 1..Len(task[t].devices) : task[t].devices[i].id = JStr(id)

\* What the three cache fields hold after a reset or a discovery.
CacheTriples ==
    {<<None, <<>>, <<>>>>}
        \cup {<<Head(p.houses.keys), SplitIds(p.cronoIDs), SplitIds(p.ecoIDs)>> :
                 p \in {q \in HousePayloads : Len(q.houses.keys) > 0}}

\* C8: a discovery that is cancelled or fails with a communication error
\* while its request is in flight leaves house id and both id lists as they
\* were, and in every state the three hold the result of one discovery (or
\* are all empty), never parts of two.
C8_DiscoveryAllOrNothing ==
    [][/\ <<house_id, c800_ids, eco_ids>>' \in CacheTriples
       /\ \A t \in Tasks :
              (/\ task[t].pc = "await"
               /\ task[t].req.kind = "house"
               /\ task'[t].pc = "done"
               /\ task'[t].result \in {"cancelled", "comm"})
                  => UNCHANGED <<house_id, c800_ids, eco_ids>>]_vars

\* A discovery has been cancelled in flight while the cache held what the
\* other task's discovery had stored, and the cache still holds it.
C8_Witness ==
    \E t, u \in Tasks :
        /\ Ended(task[t], "cancelled")
        /\ LastEntry(task[t]).kind = "house"
        /\ task[u].pc = "await"
        /\ task[u].discovered.done
        /\ house_id = "h1"
        /\ c800_ids = <<"12", "abc", "5">>
        /\ eco_ids = <<"7">>

\* Timeout, transport I/O failure, DNS failure.
TransportFailures ==
    {"timeout", "client_error", "gaierror", "typeerror_getaddrinfo"}

\* C9: a request that ends in a timeout, a transport failure or a DNS failure
\* ends the operation with the communication error and changes none of the
\* five session fields.
C9_TransportFailureKeepsSession ==
    [][\A t \in Tasks :
           (/\ task[t].pc = "await"
            /\ task'[t].pc = "done"
            /\ LastEntry(task'[t]).out.cls \in TransportFailures)
               => /\ task'[t].result = "comm"
                  /\ UNCHANGED sessionVars]_vars

\* A C800 query has timed out and the session is still the authenticated one
\* with its discovery.
C9_Witness ==
    \E t \in Tasks :
        /\ Ended(task[t], "comm")
        /\ LastEntry(task[t]).kind = "c800"
        /\ LastEntry(task[t]).out.cls = "timeout"
        /\ auth_token = "tokA"
        /\ user_id = "7"
        /\ house_id = "h1"
        /\ c800_ids = <<"12", "abc", "5">>

\* C10: the answer to a login request stores token and user id exactly when
\* its status is "OK" and token and id are both non-empty; any other login
\* payload ends the operation with the authentication error, and no login
\* that fails stores a token or a user id.
C10_LoginStoresOnlyOnSuccess ==
    [][\A t \in Tasks :
           (/\ task[t].pc = "await"
            /\ task[t].req.kind = "login"
            /\ task'[t].log[Len(task[t].log)].out # Pending)
               => LET out == task'[t].log[Len(task[t].log)].out IN
                  IF /\ out.cls = "payload"
                     /\ out.p.status = "OK"
                     /\ ~JFalsy(out.p.token)
                     /\ ~JFalsy(out.p.id)
                  THEN /\ auth_token' = PyStr(out.p.token)
                       /\ user_id' = PyStr(out.p.id)
                       /\ task'[t].result # "auth"
                  ELSE /\ auth_token' \in {auth_token, None}
                       /\ user_id' \in {user_id, None}
                       /\ out.cls = "payload" => Ended(task'[t], "auth")]_vars

\* authenticate() has returned and the session holds the token and the user
\* id of the login answer.
C10_Witness ==
    \E t \in Tasks :
        /\ task[t].op = "authenticate"
        /\ Ended(task[t], "ok")
        /\ LastEntry(task[t]).out.p.token = JStr("tokA")
        /\ auth_token = "tokA"
        /\ user_id = "7"

\* The frame a set_eco_state task has sent.
SentFrame(k) == eco_trama(k.args.serial, k.args.mode, k.args.speed).trama

\* The write response p acknowledges the frame sent for the serial.
Acknowledges(p, serial, frame) ==
    /\ p.status = "OK"
    /\ \/ p.serial \in {None, ""}
       \/ /\ Len(p.serial) = 8
          /\ IsDigit(p.serial)
          /\ DecValue(p.serial) = DecValue(DigitsOf(serial))
    /\ \/ p.trama \in {None, ""}
       \/ \E i \in 0..(Len(p.trama) - Len(frame)) :
              Upper(SubSeq(p.trama, i + 1, Len(p.trama))) = frame

\* C11: set_eco_state whose write request is answered with a JSON object
\* returns normally exactly when the answer has status "OK", a serial that is
\* absent, empty or the expected 8-digit serial, and a trama that is absent,
\* empty, or in upper case equal to or ending with the frame sent; otherwise
\* it raises the generic client error.  An answer whose trama differs from
\* the frame in its last character is rejected.
C11_EcoWriteAcknowledgement ==
    \A t \in Tasks :
        (/\ task[t].op = "set_eco_state"
         /\ task[t].pc = "done"
         /\ Len(task[t].log) > 0
         /\ LastEntry(task[t]).kind = "eco_write"
         /\ LastEntry(task[t]).out.cls = "payload")
            => LET p == LastEntry(task[t]).out.p
                   frame == SentFrame(task[t])
               IN /\ task[t].result \in {"ok", "error"}
                  /\ task[t].result = "ok"
                         <=> Acknowledges(p, task[t].args.serial, frame)
                  /\ (/\ p.trama \notin {None, ""}
                      /\ Len(p.trama) = Len(frame)
                      /\ SubSeq(p.trama, 1, 31) = SubSeq(frame, 1, 31)
                      /\ p.trama # frame)
                         => task[t].result = "error"

\* set_eco_state has returned on an answer that carries the frame after the
\* "SERVERECO" token.
C11_Witness ==
    \E t \in Tasks :
        /\ task[t].op = "set_eco_state"
        /\ Ended(task[t], "ok")
        /\ LastEntry(task[t]).out.cls = "payload"
        /\ LastEntry(task[t]).out.p.trama = "SERVERECO" \o SentFrame(task[t])

\* set_eco_state has raised on an answer whose trama differs from the frame
\* in its last character only.
C11_WitnessRejected ==
    \E t \in Tasks :
        /\ task[t].op = "set_eco_state"
        /\ Ended(task[t], "error")
        /\ Len(task[t].log) > 0
        /\ LastEntry(task[t]).kind = "eco_write"
        /\ LastEntry(task[t]).out.cls = "payload"
        /\ LastEntry(task[t]).out.p.status = "OK"
        /\ LastEntry(task[t]).out.p.trama # None
        /\ Len(LastEntry(task[t]).out.p.trama) = 32
        /\ LastEntry(task[t]).out.p.trama # SentFrame(task[t])

\* Number of decimal digits in s.
DigitCount(s) == Cardinality({i \in 1..Len(s) : IsDigitChar(Char(s, i))})

\* Arguments no ECO frame can be built from.
InvalidEcoArgs(a) ==
    \/ a.serial = ""
    \/ DigitCount(a.serial) = 0
    \/ DigitCount(a.serial) > 8
    \/ a.mode \notin 0..255
    \/ a.speed \notin 0..255

\* C12: set_eco_state called with an empty serial, a serial with no digit or
\* more than 8 digits, or a mode or speed outside 0..255 raises the generic
\* client error in the step that calls it: no request is sent, not even a
\* login, and no session field changes.
C12_InvalidEcoArgsRejectedUnsent ==
    [][\A t \in Tasks :
           (/\ task[t].pc = "idle"
            /\ task'[t].op = "set_eco_state"
            /\ InvalidEcoArgs(task'[t].args))
               => /\ Ended(task'[t], "error")
                  /\ task'[t].log = <<>>
                  /\ UNCHANGED sessionVars]_vars

\* set_eco_state with a 9-digit serial has raised on a client that holds no
\* token, and nothing was sent.
C12_Witness ==
    \E t \in Tasks :
        /\ task[t].op = "set_eco_state"
        /\ task[t].args.serial = "123456789"
        /\ task[t].no_token_at_start
        /\ Ended(task[t], "error")
        /\ task[t].log = <<>>

\* The positions of the C800 write requests in a task's log.
C800Writes(k) == {i \in 1..Len(k.log) : k.log[i].kind = "c800_write"}

\* The vendor's mode codes.
VendorModeCode == [off |-> 0, heat |-> 1, auto |-> 2]

\* C13: set_c800_state with a model other than "C800WiFi" (a missing model
\* included) raises the generic client error in the step that calls it,
\* sends nothing and changes no session field; with "C800WiFi" it sends one
\* write request and no second one, the request carries code 0 for off, 1 for
\* heat and 2 for auto, and a call that returns has sent exactly one.
C13_C800WriteModelAndModeCode ==
    /\ [][\A t \in Tasks :
              (/\ task[t].pc = "idle"
               /\ task'[t].op = "set_c800_state"
               /\ task'[t].args.model # "C800WiFi")
                  => /\ Ended(task'[t], "error")
                     /\ task'[t].log = <<>>
                     /\ UNCHANGED sessionVars]_vars
    /\ [](\A t \in Tasks :
              (task[t].op = "set_c800_state" /\ task[t].args.model = "C800WiFi")
                  => /\ Cardinality(C800Writes(task[t])) <= 1
                     /\ C800Writes(task[t]) \subseteq {Len(task[t].log)}
                     /\ Ended(task[t], "ok")
                            => Cardinality(C800Writes(task[t])) = 1
                     /\ (task[t].pc = "await" /\ task[t].req.kind = "c800_write")
                            => task[t].req.mode
                                   = VendorModeCode[task[t].args.hvac_mode])

\* The write request of set_c800_state for mode auto is in flight with code 2.
C13_Witness ==
    \E t \in Tasks :
        /\ task[t].op = "set_c800_state"
        /\ task[t].args.hvac_mode = "auto"
        /\ task[t].pc = "await"
        /\ task[t].req.kind = "c800_write"
        /\ task[t].req.mode = 2

\* set_c800_state with a missing model has raised and nothing was sent.
C13_WitnessUnsupported ==
    \E t \in Tasks :
        /\ task[t].op = "set_c800_state"
        /\ task[t].args.model = None
        /\ Ended(task[t], "error")
        /\ task[t].log = <<>>

\* The positions of the records of a device list that carry an id.
WithId(devices) == {i \in 1..Len(devices) : devices[i].id # JNull}

\* C14: the mapping get_states builds has as keys exactly the string forms
\* of the ids of the records that have one, and under each key the last
\* record of the list with that id.
C14_StateMapKeysAndLastWins ==
    (pure.fn = "get_states" /\ pure.done)
        => /\ DOMAIN pure.out = {PyStr(pure.arg[i].id) : i \in WithId(pure.arg)}
           /\ \A i \in WithId(pure.arg) :
                  (\A j \in WithId(pure.arg) :
                       (j > i) => PyStr(pure.arg[j].id) # PyStr(pure.arg[i].id))
                      => pure.out[PyStr(pure.arg[i].id)] = pure.arg[i]

\* A list with a record without id between two records whose ids have the
\* same string form has been reduced to the later of the two.
C14_Witness ==
    /\ pure.fn = "get_states"
    /\ pure.done
    /\ pure.arg = <<[id |-> JInt(7), name |-> "a"], [id |-> JNull, name |-> "a"],
                    [id |-> JStr("7"), name |-> "b"]>>
    /\ DOMAIN pure.out = {"7"}
    /\ pure.out["7"].name = "b"

\* The string is the decimal form of a positive integer.
PositiveInteger(id) == IsDigit(id) /\ DecValue(id) > 0

\* The operations that run async_get_devices.
DeviceOps == {"get_devices", "get_states", "validate_credentials"}

\* C15: a device query of get_devices asks only for ids that are positive
\* integers, and no cached id that is not one makes get_devices raise: the
\* call never ends with the ValueError of int().
C15_OnlyPositiveIdsQueriedNoneRaises ==
    \A t \in Tasks :
        task[t].op \in DeviceOps
            => /\ (task[t].pc = "await" /\ task[t].req.kind \in {"eco", "c800"})
                      => \A i \in 1..Len(task[t].req.asked) :
                             PositiveInteger(task[t].req.asked[i])
               /\ ~Ended(task[t], "valueerror")

\* get_devices has ended with the ValueError of int("--5").
C15_ValueErrorReached ==
    \E t \in Tasks : task[t].op \in DeviceOps /\ Ended(task[t], "valueerror")

\* An ECO query for the cached id "abc" is in flight.
C15_NonNumericEcoQueried ==
    \E t \in Tasks :
        /\ task[t].pc = "await"
        /\ task[t].req.kind = "eco"
        /\ task[t].req.asked = <<"abc">>

\* The string forms of the entries of a JSON id list that are neither null
\* nor the empty string; nothing for a value that is no list.
RECURSIVE StringForms(_)
StringForms(items) ==
    IF items = <<>> THEN <<>>
    ELSE (IF Head(items) \in {JNull, JStr("")} THEN <<>>
          ELSE <<PyStr(Head(items))>>) \o StringForms(Tail(items))

\* Task t receives in this step a house listing that is not "NO_AUTH".
HouseListed(t) ==
    /\ task[t].pc = "await"
    /\ task[t].req.kind = "house"
    /\ task'[t].log[Len(task[t].log)].out.cls = "payload"
    /\ task'[t].log[Len(task[t].log)].out.p.status # "NO_AUTH"

\* C16: a house listing without houses raises nothing and leaves house id
\* and both id lists empty, and the get_devices around it sends no device
\* query and returns an empty list; a listing with houses selects the first
\* house key and caches, for each family, the string forms of the entries
\* that are neither null nor empty.
C16_DiscoveryResult ==
    [][\A t \in Tasks :
           HouseListed(t)
               => LET p == task'[t].log[Len(task[t].log)].out.p IN
                  IF Len(p.houses.keys) = 0
                  THEN /\ house_id' = None
                       /\ c800_ids' = <<>>
                       /\ eco_ids' = <<>>
                       /\ Ended(task'[t], "ok")
                       /\ Len(task'[t].log) = Len(task[t].log)
                       /\ task'[t].devices = <<>>
                  ELSE /\ house_id' = p.houses.keys[1]
                       /\ c800_ids' = StringForms(p.cronoIDs.items)
                       /\ eco_ids' = StringForms(p.ecoIDs.items)]_vars

\* get_devices has returned an empty list on a listing without houses, and
\* the cache that the other task's discovery had filled is empty.
C16_Witness ==
    \E t, u \in Tasks :
        /\ task[t].op = "get_devices"
        /\ Ended(task[t], "ok")
        /\ task[t].devices = <<>>
        /\ LastEntry(task[t]).kind = "house"
        /\ task[u].pc = "await"
        /\ task[u].discovered.c800_ids = <<"12", "abc", "5">>
        /\ house_id = None
        /\ c800_ids = <<>>
        /\ eco_ids = <<>>

\* A listing with two houses has been cached: the first key, the C800 ids
\* without the null and the empty entry, no ECO id for a value that is no
\* list.
C16_WitnessHouses ==
    /\ house_id = "h2"
    /\ c800_ids = <<"3">>
    /\ eco_ids = <<>>

\* C17: get_devices invoked while no other operation runs, on a client that
\* holds a token and a cached house id (a discovery succeeded and nothing has
\* reset the session since), does not send a house-listing request.
C17_NoRediscoveryWhenCached ==
    [][\A t \in Tasks :
           (/\ \A u \in Tasks : task[u].pc = "idle"
            /\ task'[t].op = "get_devices"
            /\ ~Falsy(auth_token)
            /\ house_id # None)
               => task'[t].req.kind # "house"]_vars

\* C18: the coordinator turns the authentication error into
\* ConfigEntryAuthFailed and every other client error into UpdateFailed; the
\* setup flow shows the form again with "auth", "connection" or "unknown" for
\* the authentication error, the communication error and any other client
\* error, and creates an entry only when the validation raised nothing.
C18_HostErrorMapping ==
    /\ (pure.fn = "update_data" /\ pure.done)
           => /\ pure.arg = "auth" => pure.out = "ConfigEntryAuthFailed"
              /\ pure.arg \in {"comm", "error"} => pure.out = "UpdateFailed"
              /\ pure.arg = "ok" => pure.out = "data"
    /\ (pure.fn = "step_user" /\ pure.done /\ pure.arg.submitted)
           => /\ pure.arg.result = "auth"
                     => pure.out = [type |-> "form", base |-> "auth"]
              /\ pure.arg.result = "comm"
                     => pure.out = [type |-> "form", base |-> "connection"]
              /\ pure.arg.result = "error"
                     => pure.out = [type |-> "form", base |-> "unknown"]
    /\ (pure.fn = "step_user" /\ pure.done /\ pure.out.type = "create_entry")
           => pure.arg.submitted /\ pure.arg.result = "ok"

\* The coordinator has turned an authentication error into the re-entry
\* signal.
C18_Witness ==
    /\ pure.fn = "update_data"
    /\ pure.done
    /\ pure.arg = "auth"
    /\ pure.out = "ConfigEntryAuthFailed"

\* The setup flow has reported a communication error as "connection".
C18_WitnessFlow ==
    /\ pure.fn = "step_user"
    /\ pure.done
    /\ pure.arg.result = "comm"
    /\ pure.out.base = "connection"

\* The byte at hex positions i, i + 1 (counted from 0) of a frame, read as
\* _decode_trama reads it.
ByteAt(trama, i) ==
    16 * HexVal(Char(trama, i + 1)) + HexVal(Char(trama, i + 2))

\* Frames computed by the Python code for a few inputs.
ReferenceFrames ==
    {<<"12345678", 0, 0, "0A00005678000E2F005000000000EB0D">>,
     <<"12345678", 255, 255, "0A00005678000E2F00500000FFFFC60D">>,
     <<"12345678", 1, 2, "0A00005678000E2F0050000001027D0D">>,
     <<"AB-12", 255, 0, "0A00000012000E2F00500000FF00210D">>,
     <<"1", 16, 15, "0A00000001000E2F00500000100F5A0D">>,
     <<"0000-0000", 128, 127, "0A00000000000E2F00500000807FA50D">>}

\* C19: for mode and speed in 0..255 and a serial with 1 to 8 digits, the
\* frame has 32 upper-case hex characters, starts with "0A0000", ends with
\* "0D", carries at hex positions 6..9 the last four digits of the serial
\* padded with zeros, the mode at 24..25, the speed at 26..27, and at 28..29
\* the CRC-8 of the 14 bytes before it.
C19_FrameLayout ==
    (/\ pure.fn = "eco_trama"
     /\ pure.done
     /\ pure.arg.mode \in 0..255
     /\ pure.arg.speed \in 0..255
     /\ DigitCount(pure.arg.serial) \in 1..8)
        => LET trama == pure.out.trama IN
           /\ pure.out.ok
           /\ Len(trama) = 32
           /\ \A i \in 1..32 : \E h \in 1..16 : Char(trama, i) = Char(HexDigits, h)
           /\ SubSeq(trama, 1, 6) = "0A0000"
           /\ SubSeq(trama, 31, 32) = "0D"
           /\ IsDigit(SubSeq(trama, 7, 10))
           /\ DecValue(SubSeq(trama, 7, 10))
                  = DecValue(DigitsOf(pure.arg.serial)) % 10000
           /\ ByteAt(trama, 24) = pure.arg.mode
           /\ ByteAt(trama, 26) = pure.arg.speed
           /\ ByteAt(trama, 28) = crc8_eco(FromHex(SubSeq(trama, 1, 28)))
           /\ \A r \in ReferenceFrames :
                  (/\ pure.arg.serial = r[1]
                   /\ pure.arg.mode = r[2]
                   /\ pure.arg.speed = r[3]) => trama = r[4]

\* The frame for a serial with non-digit characters, mode 255 and speed 0.
C19_Witness ==
    /\ pure.fn = "eco_trama"
    /\ pure.done
    /\ pure.arg = [serial |-> "AB-12", mode |-> 255, speed |-> 0]
    /\ pure.out = [ok |-> TRUE, trama |-> "0A00000012000E2F00500000FF00210D"]

\* "2" is auto, "1" is heat, anything else is off.
HvacModeOf(raw) ==
    IF raw = "2" THEN "auto" ELSE IF raw = "1" THEN "heat" ELSE "off"

\* C20: the mode of a record is read from its runtime hvac_mode field
\* whenever that field is present and not empty, and from config.mode only
\* when the runtime field is absent or empty; so runtime "0" with config.mode
\* "1" reads off.
C20_RuntimeModeWins ==
    (pure.fn = "get_hvac_mode" /\ pure.done)
        => LET runtime == pure.arg.hvac_mode
               cfg == pure.arg.config
           IN IF runtime \notin {JNull, JStr("")}
              THEN pure.out = HvacModeOf(Strip(PyStr(runtime)))
              ELSE IF cfg.isdict /\ cfg.mode \notin {JNull, JStr("")}
              THEN pure.out = HvacModeOf(Strip(PyStr(cfg.mode)))
              ELSE pure.out = "off"

\* The record with runtime mode "0" and config.mode "1" has been read as
\* heat.
C20_ZeroRuntimeReadsConfig ==
    /\ pure.fn = "get_hvac_mode"
    /\ pure.done
    /\ pure.arg = [hvac_mode |-> JStr("0"),
                   config |-> [isdict |-> TRUE, mode |-> JStr("1")]]
    /\ pure.out = "heat"

\* The level a raw integer speed stands for.
LevelOf(raw) ==
    IF raw \in 0..4 THEN raw
    ELSE IF raw \in 16..19 THEN raw - 15
    ELSE IF raw < 0 THEN 0
    ELSE 4

\* C21: the normalized fan level is None for absent or non-integer input and
\* otherwise the level of the raw value (0..4 unchanged, 16..19 minus 15,
\* anything else clamped into 0..4); the raw value is the runtime speed_state
\* whenever it is present, a reported 0 included, and the configured
\* speed_set only when the runtime value is absent or empty.
C21_FanLevelFromRuntimeSpeed ==
    (pure.fn = "fan_level" /\ pure.done)
        => LET raw == to_int(IF pure.arg.speed_state \in {JNull, JStr("")}
                             THEN pure.arg.speed_set
                             ELSE pure.arg.speed_state)
           IN IF raw.some THEN pure.out = SomeInt(LevelOf(raw.n))
              ELSE pure.out = NoInt

\* The runtime speed is the number 0 and the configured speed is 2: the level
\* read is 2.
C21_ZeroRuntimeReadsConfigured ==
    /\ pure.fn = "fan_level"
    /\ pure.done
    /\ pure.arg = [speed_state |-> JInt(0), speed_set |-> JStr("2")]
    /\ pure.out = SomeInt(2)

\* A field that is there: neither absent (or null) nor the empty string.
Present(v) == v \notin {JNull, JStr("")}

\* The first present value of a sequence of fields, JNull when there is
\* none.
RECURSIVE FirstPresent(_)
FirstPresent(fields) ==
    IF Len(fields) = 0 THEN JNull
    ELSE IF Present(Head(fields)) THEN Head(fields)
    ELSE FirstPresent(Tail(fields))

\* C22: the current temperature is the value of the first present field in
\* the order t_amb, tamb, the target temperature that of the first present
\* field in the order tmanw, tmans, tset; a present field is used whatever
\* its numeric value, 0 included, and a later alias is read only when every
\* earlier one is absent.
C22_FirstPresentAliasWins ==
    /\ (pure.fn = "current_temperature" /\ pure.done)
         => pure.out = as_float(FirstPresent(<<pure.arg.t_amb, pure.arg.tamb>>))
    /\ (pure.fn = "target_temperature" /\ pure.done)
         => pure.out = as_float(FirstPresent(
                <<pure.arg.tmanw, pure.arg.tmans, pure.arg.tset>>))

\* The ambient field t_amb is the number 0 and the alias tamb is "21.5": the
\* temperature read is 21.5.
C22_ZeroAmbientReadsAlias ==
    /\ pure.fn = "current_temperature"
    /\ pure.done
    /\ pure.arg = [t_amb |-> JInt(0), tamb |-> JStr("21.5")]
    /\ pure.out = SomeFloat(215)

\* The setpoint tmanw is the number 0, tmans is absent and tset is 19: the
\* target read is 19.
C22_ZeroSetpointReadsAlias ==
    /\ pure.fn = "target_temperature"
    /\ pure.done
    /\ pure.arg = [tmanw |-> JInt(0), tmans |-> JNull, tset |-> JInt(19)]
    /\ pure.out = SomeFloat(190)

\* The list under the first key of keys that the object has, the empty list
\* when it has none of them.
RECURSIVE FirstListed(_, _)
FirstListed(fields, keys) ==
    IF Len(keys) = 0 THEN JList(<<>>)
    ELSE IF Head(keys) \in DOMAIN fields THEN fields[Head(keys)]
    ELSE FirstListed(fields, Tail(keys))

\* C23: for an accepted device-listing response the device list is taken
\* from the first present key among data, devices, results, items, and a
\* response that is itself a list is used as the device list and not
\* rejected.
C23_ListFromFirstAliasOrTopLevel ==
    (pure.fn = "device_query" /\ pure.done)
        => IF ~pure.arg.isdict
           THEN pure.out = [raised |-> "none",
                            devices |-> normalize_device_data(pure.arg.top)]
           ELSE pure.arg.status = "OK"
                    => pure.out =
                           [raised |-> "none",
                            devices |-> normalize_device_data(
                                FirstListed(pure.arg.fields, ListKeys))]

\* A response that is a list of one device record has been rejected.
C23_TopLevelListRejected ==
    /\ pure.fn = "device_query"
    /\ pure.done
    /\ ~pure.arg.isdict
    /\ pure.arg.top = JList(<<DeviceEntry("7")>>)
    /\ pure.out = [raised |-> "error", devices |-> <<>>]

\* A response with its one device record under "devices" has given no
\* device.
C23_DevicesKeyIgnored ==
    /\ pure.fn = "device_query"
    /\ pure.done
    /\ pure.arg.isdict
    /\ pure.arg.status = "OK"
    /\ DOMAIN pure.arg.fields = {"devices"}
    /\ pure.arg.fields["devices"] = JList(<<DeviceEntry("7")>>)
    /\ pure.out = [raised |-> "none", devices |-> <<>>]

\* The records a list of answered device queries delivered, in the order of
\* the queries.
RECURSIVE RecordsOf(_)
RecordsOf(entries) ==
    IF Len(entries) = 0 THEN <<>>
    ELSE normalize_device_data(Head(entries).out.p.data)
             \o RecordsOf(Tail(entries))

\* The requests of a get_devices call follow the chain login, house listing,
\* one ECO query for all discovered ECO ids if there is any, one C800 query
\* for each discovered positive C800 id in order; k is the call's record.
FollowsChain(k) ==
    LET d == k.discovered
        n == Len(k.log)
        eco == IF Len(d.eco_ids) > 0 THEN 1 ELSE 0
        valid == SelectSeq(d.c800_ids, PositiveInteger)
    IN /\ n >= 1 => k.log[1].kind = "login"
       /\ n >= 2 => k.log[2].kind = "house"
       /\ n >= 3 => /\ d.done
                    /\ k.log[2].out.cls = "payload"
                    /\ n <= 2 + eco + Len(valid)
       /\ \A i \in 3..n :
              /\ k.log[i].kind = (IF i = 3 /\ eco = 1 THEN "eco" ELSE "c800")
              /\ (i = n /\ k.pc = "await")
                     => k.req.asked = (IF k.req.kind = "eco" THEN d.eco_ids
                                       ELSE <<valid[i - 2 - eco]>>)
       /\ (k.pc = "done" /\ k.result = "ok")
              => /\ n = 2 + (IF Len(d.c800_ids) + Len(d.eco_ids) > 0
                             THEN eco + Len(valid) ELSE 0)
                 /\ k.devices = RecordsOf(SubSeq(k.log, 3, n))

\* C24: a get_devices call on a client without a session issues its requests
\* in the order login, house listing, one ECO query (only when the
\* discovered ECO list is not empty, for all ECO ids at once), then one C800
\* query per valid C800 id in order; no device query precedes the processing
\* of the house listing, and the list returned is the ECO records followed
\* by the C800 records in query order.
C24_GetDevicesCallOrder ==
    \A t \in Tasks :
        (task[t].op = "get_devices" /\ task[t].no_token_at_start)
            => FollowsChain(task[t])

\* A get_devices call that began without a session has sent a second login
\* after its house listing was answered.
C24_LoginAfterHouseListing ==
    \E t \in Tasks :
        /\ task[t].op = "get_devices"
        /\ task[t].no_token_at_start
        /\ Len(task[t].log) >= 3
        /\ task[t].log[1].kind = "login"
        /\ task[t].log[2].kind = "house"
        /\ task[t].log[3].kind = "login"

\* The first call on the client is a get_devices call, has run alone and has
\* returned three records after login, house listing, the ECO query and two
\* C800 queries.
C24_SoleCallFullChain ==
    \E t \in Tasks :
        /\ calls = 1
        /\ task[t].op = "get_devices"
        /\ Ended(task[t], "ok")
        /\ Len(task[t].log) = 5
        /\ FollowsChain(task[t])
        /\ Len(task[t].devices) = 3

\* 2^k
RECURSIVE Pow2(_)
Pow2(k) == IF k = 0 THEN 1 ELSE 2 * Pow2(k - 1)

\* The remainder of the polynomial v (bits above position top are 0) by
\* x^8 + x^5 + x^4 + 1 over GF(2): the divisor 0x131 is subtracted at every
\* set bit from the top down to bit 8.
RECURSIVE PolyRemainder(_, _)
PolyRemainder(v, top) ==
    IF top < 8 THEN v
    ELSE IF (v \div Pow2(top)) % 2 = 1
    THEN PolyRemainder(BitXor(v, 305 * Pow2(top - 8)), top - 1)
    ELSE PolyRemainder(v, top - 1)

\* The reference CRC-8 register after the bytes: initial value 0, each byte
\* XORed in and the register multiplied by x^8 modulo the polynomial.
RECURSIVE ReferenceRegister(_, _)
ReferenceRegister(crc, bytes) ==
    IF Len(bytes) = 0 THEN crc
    ELSE ReferenceRegister(PolyRemainder(256 * BitXor(crc, Head(bytes)), 15),
                           Tail(bytes))

ReferenceCrc8(bytes) == BitXor(ReferenceRegister(0, bytes), 197)

\* Checksums of the reference for known inputs; 0xA2 xor 0xC5 = 0x67 is the
\* catalogue check value of the polynomial for "123456789".
ReferenceChecksums ==
    (<<>> :> 197) @@ (<<255>> :> 105) @@ (<<128>> :> 191)
        @@ (<<255, 255>> :> 232)
        @@ (<<49, 50, 51, 52, 53, 54, 55, 56, 57>> :> 103)
        @@ (<<10, 0, 0, 0, 18, 0, 14, 47, 0, 80, 0, 0, 255, 0>> :> 33)

\* C25: for every byte string the checksum is the value of the reference
\* CRC-8 (initial value 0x00, polynomial 0x31, final XOR 0xC5) and lies in
\* 0..255.
C25_ChecksumIsReferenceCrc8 ==
    (pure.fn = "crc8_eco" /\ pure.done)
        => /\ pure.out = ReferenceCrc8(pure.arg)
           /\ pure.out \in 0..255
           /\ pure.arg \in DOMAIN ReferenceChecksums
                  => pure.out = ReferenceChecksums[pure.arg]

\* The checksum of the ASCII digits "123456789" has been computed as 0x67.
C25_Witness ==
    /\ pure.fn = "crc8_eco"
    /\ pure.done
    /\ pure.arg = <<49, 50, 51, 52, 53, 54, 55, 56, 57>>
    /\ pure.out = 103

\* The JSON texts among the field values and the values they stand for.
ReferenceParses ==
    ("{\"modello\":\"ECO\"}" :> JObject("modello=ECO"))
        @@ (" { \"tipo\" : \"wifi\" } " :> JObject("tipo=wifi"))
        @@ ("{}" :> JObject(""))
        @@ ("12" :> JInt(12))
        @@ ("null" :> JNull)
        @@ ("true" :> JBool(TRUE))
        @@ ("\"ECO\"" :> JStr("ECO"))

\* A model or config value after normalisation.
NormalizedField(v) ==
    IF v.t = "str" /\ v.s \in DOMAIN ReferenceParses THEN ReferenceParses[v.s]
    ELSE v

\* C26: normalising a device list keeps the order, drops every entry that is
\* no mapping and gives one record for every mapping: a model or config
\* string that is valid JSON is replaced by its parsed value, one that is
\* not is left as it is, every other field is copied; a value that is no
\* list gives the empty list.
C26_NormalizeDeviceList ==
    (pure.fn = "normalize" /\ pure.done)
        => IF ~pure.arg.islist THEN pure.out = <<>>
           ELSE LET mappings == SelectSeq(pure.arg.items, LAMBDA e : e.isdict)
                IN /\ Len(pure.out) = Len(mappings)
                   /\ \A i \in 1..Len(mappings) :
                          /\ DOMAIN pure.out[i] = {"id", "model", "config"}
                          /\ pure.out[i].id = mappings[i].id
                          /\ pure.out[i].model = NormalizedField(mappings[i].model)
                          /\ pure.out[i].config
                                 = NormalizedField(mappings[i].config)

\* A list of an object with a JSON model text and a config text that is no
\* JSON, an entry that is no object, and a second object has been
\* normalised to two records; the model is parsed, the config is unchanged.
C26_Witness ==
    /\ pure.fn = "normalize"
    /\ pure.done
    /\ pure.arg.islist
    /\ Len(pure.arg.items) = 3
    /\ pure.arg.items[1].isdict
    /\ pure.arg.items[1].model = JStr("{\"modello\":\"ECO\"}")
    /\ pure.arg.items[1].config = JStr("{\"modello\":\"ECO\"")
    /\ ~pure.arg.items[2].isdict
    /\ Len(pure.out) = 2
    /\ pure.out[1].model = JObject("modello=ECO")
    /\ pure.out[1].config = JStr("{\"modello\":\"ECO\"")
    /\ pure.out[2].id = JStr("8")

\* A value that is no list has been normalised to the empty list.
C26_WitnessNotAList ==
    /\ pure.fn = "normalize"
    /\ pure.done
    /\ ~pure.arg.islist
    /\ pure.out = <<>>

\* Task t sends a request in this step: its log has a new entry waiting for
\* its answer.
Sends(t) ==
    /\ task'[t].pc = "await"
    /\ task'[t].log # task[t].log
    /\ LastEntry(task'[t]).out = Pending

\* C27: every request other than the login is sent with Token and Tokenid
\* headers equal to the session's auth token and user id at the moment it is
\* sent; a write or device query issued while the session holds no token
\* goes out with the token of the login it triggered, never without the
\* headers.
C27_RequestsCarrySessionToken ==
    [][\A t \in Tasks :
           (Sends(t) /\ LastEntry(task'[t]).kind # "login")
               => /\ LastEntry(task'[t]).hdrs
                         = [Tokenid |-> user_id', Token |-> auth_token']
                  /\ LastEntry(task'[t]).hdrs.Token # None]_vars

\* The first call on the client is a ventilation write; its login has
\* succeeded and its frame is in flight without Token and Tokenid headers
\* while the session holds the new token.
C27_WriteSentWithoutHeaders ==
    \E t \in Tasks :
        /\ calls = 1
        /\ task[t].op = "set_eco_state"
        /\ task[t].pc = "await"
        /\ task[t].req.kind = "eco_write"
        /\ Len(task[t].log) = 2
        /\ task[t].log[1].kind = "login"
        /\ LastEntry(task[t]).hdrs = NoHeaders
        /\ ~Falsy(auth_token)

\* C28: in every state, at every suspension point and under every
\* interleaving, the auth token is set exactly when the user id is set.
C28_TokenIffUserId ==
    /\ Falsy(auth_token) <=> Falsy(user_id)
    /\ auth_token = None <=> user_id = None

\* Token and user id are set while two operations are suspended on their
\* requests.
C28_Witness ==
    /\ ~Falsy(auth_token)
    /\ ~Falsy(user_id)
    /\ \A t \in Tasks : task[t].pc = "await"

\* An operation that was sent with the session's token has ended on HTTP 401
\* or 403 while another is suspended: token and user id are both cleared.
C28_WitnessReset ==
    \E t \in Tasks :
        /\ Ended(task[t], "auth")
        /\ LastEntry(task[t]).hdrs.Token # None
        /\ LastEntry(task[t]).out.cls \in {"http401", "http403"}
        /\ \E u \in Tasks \ {t} : task[u].pc = "await"
        /\ auth_token = None
        /\ user_id = None

\* C29: in every state, under every interleaving, a cached house id or a
\* non-empty cached id list implies that an auth token is set: discovery
\* results are neither kept nor written after the reset that cleared the
\* token they were obtained with.
C29_CacheImpliesToken ==
    (house_id # None \/ Len(c800_ids) > 0 \/ Len(eco_ids) > 0)
        => ~Falsy(auth_token)

\* A house listing sent with the session's token has been answered and
\* cached after another operation's HTTP 401 or 403 had cleared the
\* session: the cache holds a house and ids, the session no token.
C29_CacheWrittenAfterReset ==
    \E t \in Tasks :
        /\ task[t].op = "fetch_house"
        /\ Ended(task[t], "ok")
        /\ LastEntry(task[t]).kind = "house"
        /\ LastEntry(task[t]).hdrs.Token # None
        /\ auth_token = None
        /\ house_id = "h1"
        /\ eco_ids = <<"7">>

\* C30: every ventilation write that asks for a speed other than 0 carries a
\* mode in 1..4, never the power-off mode 0, whatever mode the unit last
\* reported (the state after a turn_off and a refresh included), and mode 0
\* is written only together with speed 0.
C30_RunningWritesCarryRunningMode ==
    (pure.fn = "ventilation" /\ pure.done)
        => \A i \in 1..Len(pure.out) :
               /\ pure.out[i].speed # 0 => pure.out[i].mode \in 1..4
               /\ pure.out[i].mode = 0 => pure.out[i].speed = 0

\* turn_on of a fan whose unit reports mode 0 and speed 0, as after a
\* turn_off, has written mode 0 with speed 1, and the client builds a frame
\* for it.
C30_TurnOnAfterTurnOffWritesModeZero ==
    /\ pure.fn = "ventilation"
    /\ pure.done
    /\ pure.arg.op = "fan.turn_on"
    /\ pure.arg.percentage = NoInt
    /\ pure.arg.option = None
    /\ pure.arg.state.mode_state = JInt(0)
    /\ pure.arg.state.speed_state = JInt(0)
    /\ pure.out = <<EcoWrite(0, 1)>>
    /\ eco_trama(pure.arg.serial, 0, 1).ok

\* The speed select set to "vel2" on the same state has written mode 0 with
\* speed 3.
C30_SpeedSelectWritesModeZero ==
    /\ pure.fn = "ventilation"
    /\ pure.done
    /\ pure.arg.op = "speed.select_option"
    /\ pure.arg.option = "vel2"
    /\ pure.arg.state.mode_state = JInt(0)
    /\ pure.out = <<EcoWrite(0, 3)>>

====
